---- MODULE Spec2Model ----
(***************************************************************************)
(* Translation pipeline of the YLE dual-subtitle extension.                *)
(*                                                                         *)
(*   Spec       content script: cue listener, dual-sub switch,             *)
(*              TranslationQueue, in-memory caches, subtitle store         *)
(*   SpecRetry  service worker: translateTextsWithErrorHandling            *)
(*   SpecStore  database.js: the functions on the IndexedDB database       *)
(*   SpecRewatch  Spec started on a store that holds Movie A's subtitles   *)
(*   SpecDrain  TranslationQueue alone, with long pending lists            *)
(*   SpecKey    toTranslationKey on its own                                 *)
(*   SpecTokens options page: the token list                                *)
(*   SpecSave   Spec with cache writes that fail                            *)
(*   SpecShow   content script rendering the subtitles                      *)
(*   SpecLive   SpecDrain with every batch answered in the end             *)
(*   SpecLanguage  Spec with the target language still loading             *)
(*   SpecMovies  Spec with the title changing while cues arrive            *)
(*   SpecSweep  startup cleanup of old movie data                          *)
(*   SpecWorker  service worker: loading the selected token                *)
(*   SpecCards  options page: the token cards                              *)
(*                                                                         *)
(* A JavaScript string is a sequence of pieces; a piece is one character   *)
(* (cue texts, translations) or an opaque block of characters (messages).  *)
(* Concatenation is \o.                                                    *)
(***************************************************************************)
EXTENDS Integers, Sequences, FiniteSets, TLC

VARIABLES
    queue,                      \* TranslationQueue.queue
    isProcessing,               \* TranslationQueue.isProcessing
    dualSubEnabled,
    sharedTranslationMap,
    sharedTranslationErrorMap,
    currentMovieName,
    globalDatabaseInstance,
    targetLanguage,
    subtitleStore,              \* object store SubtitlesCache
    saveTransactions,           \* saveSubtitlesBatch transactions not yet completed
    drains,                     \* processQueue invocations suspended at await fetchTranslation:
                                \* toProcessItems, the pending list it was cut from and
                                \* the targetLanguage of the message it sent
    cuesSeen,                   \* number of sendTranslationTextEvent events so far
    ev,                         \* the handler that ran last, with its inputs
    movieLoad,                  \* position of loadMovieCacheAndUpdateMetadata
    movieMetadata,              \* object store MovieMetadata
    bg,                         \* one translateTextsWithErrorHandling call in the service worker
    arrived,                    \* texts handed to addToQueue, in order
    submitted,                  \* texts handed to fetchTranslation, in order
    schema,                     \* the IndexedDB database YleDualSubCache: version, object stores, indexes
    dbCall,                     \* the database function that ran last, with its arguments and result
    tokenInfos,                 \* options page: the token list (state of TokenManagementSection)
    tokenSubmits,               \* options page: handleSubmit and handleCheckUsage calls suspended
                                \* at await queryTokenUsageInfo, with the list of their render
    keyCall,                    \* the last toTranslationKey call: its argument and its result
    displayed,                  \* the subtitle addContentToDisplayedSubtitlesWrapper rendered last
    languageLoad,               \* position of loadTargetLanguageFromChromeStorageSync().then(...)
    sweep,                      \* position of the cleanupOldMovieData call of the content script
    storage,                    \* chrome.storage.sync: the value of tokenInfos
    worker                      \* service worker: deeplTokenKey, isDeepLPro and the startup load

vars == << queue, isProcessing, dualSubEnabled, sharedTranslationMap,
           sharedTranslationErrorMap, currentMovieName, globalDatabaseInstance,
           targetLanguage, subtitleStore, saveTransactions, drains, cuesSeen,
           ev, movieLoad, movieMetadata, bg, arrived, submitted, schema, dbCall,
           tokenInfos, tokenSubmits, keyCall, displayed, languageLoad, sweep,
           storage, worker >>

\* variables of the startup of the scripts
startVars == << languageLoad, sweep, storage, worker >>

\* variables of the options page, of toTranslationKey and of the display
pageVars == << tokenInfos, tokenSubmits, keyCall, displayed, startVars >>

\* variables that Spec and SpecRetry leave alone
otherVars == << arrived, submitted, schema, dbCall, pageVars >>

contentVars == << queue, isProcessing, dualSubEnabled, sharedTranslationMap,
                  sharedTranslationErrorMap, currentMovieName, globalDatabaseInstance,
                  targetLanguage, subtitleStore, saveTransactions, drains, cuesSeen,
                  ev, movieLoad, movieMetadata, otherVars >>

----------------------------------------------------------------------------
(* Bounds *)

MaxCues == 3

\* Math.random() is drawn from { 0/n, 1/n, .., (n-1)/n } with n = RandomSteps
\* and from the doubles just below 1
RandomSteps == 4

(* Program constants *)

BATCH_MAXIMUM_SIZE == 7

MAX_RETRIES == 3

----------------------------------------------------------------------------
(* Strings *)

Min(a, b) == IF a < b THEN a ELSE b

IsWhitespace(c) == c \in {" ", "\n", "\t"}

\* String.prototype.toLowerCase on one character
ToLowerCaseChar(c) ==
    CASE c = "A" -> "a"
      [] c = "B" -> "b"
      [] c = "C" -> "c"
      [] c = "D" -> "d"
      [] OTHER   -> c

\* s.replace(/\n/g, ' ')
ReplaceNewlines(s) == [i \in 1..Len(s) |-> IF s[i] = "\n" THEN " " ELSE s[i]]

\* s.replace(/\s+/g, ' ')
RECURSIVE CollapseWhitespace(_)
CollapseWhitespace(s) ==
    IF s = << >> THEN << >>
    ELSE IF IsWhitespace(Head(s))
         THEN IF Len(s) > 1 /\ IsWhitespace(s[2])
              THEN CollapseWhitespace(Tail(s))
              ELSE << " " >> \o CollapseWhitespace(Tail(s))
         ELSE << Head(s) >> \o CollapseWhitespace(Tail(s))

RECURSIVE TrimStart(_)
TrimStart(s) ==
    IF s # << >> /\ IsWhitespace(Head(s)) THEN TrimStart(Tail(s)) ELSE s

RECURSIVE TrimEnd(_)
TrimEnd(s) ==
    IF s # << >> /\ IsWhitespace(s[Len(s)]) THEN TrimEnd(SubSeq(s, 1, Len(s) - 1)) ELSE s

\* s.trim()
Trim(s) == TrimEnd(TrimStart(s))

\* s.toLowerCase()
ToLowerCase(s) == [i \in 1..Len(s) |-> ToLowerCaseChar(s[i])]

\* the key without .trim()
toTranslationKeyUntrimmed(rawSubtitleFinnishText) ==
    ToLowerCase(CollapseWhitespace(ReplaceNewlines(rawSubtitleFinnishText)))

toTranslationKey(rawSubtitleFinnishText) ==
    ToLowerCase(Trim(CollapseWhitespace(ReplaceNewlines(rawSubtitleFinnishText))))

\* translatedText.trim().replace(/\n/g, ' ')
toTranslationValue(translatedText) == ReplaceNewlines(Trim(translatedText))

\* /[a-zäöå]/.test(translationKey)
HasFinnishLetter(translationKey) ==
    \E i \in 1..Len(translationKey) : translationKey[i] \in {"a", "b", "c", "d"}

----------------------------------------------------------------------------
(* Inputs *)

\* cue texts of the subtitle file: "Ab" has the key "ab", "c\nd" has the key
\* "c d", "1" has a key of length 1
CueTexts == { << "A", "b" >>, << "c", "\n", "d" >>, << "1" >> }

\* texts the translation provider answers with
Translations == { << "x" >>, << " ", "y", "\n", "z" >> }

\* currentMovieName when it is null or the empty title (both falsy)
NoMovie == ""

MovieNames == { "Movie A" }

----------------------------------------------------------------------------
(* Maps *)

EmptyMap == [k \in {} |-> << >>]

MapSet(m, k, v) == [x \in (DOMAIN m) \cup {k} |-> IF x = k THEN v ELSE m[x]]

----------------------------------------------------------------------------
(* Results of a translation call, as the content script sees them *)

\* [true, translatedTexts]
OkResult(arr) == [kind |-> "ok", arr |-> arr, msg |-> << >>]

\* [false, message]
FailResult(msg) == [kind |-> "fail", arr |-> << >>, msg |-> msg]

\* chrome.runtime.sendMessage resolves with undefined (no response was sent)
UndefinedResult == [kind |-> "undefined", arr |-> << >>, msg |-> << >>]

\* chrome.runtime.sendMessage rejects with an Error
RejectedResult(msg) == [kind |-> "reject", arr |-> << >>, msg |-> msg]

NoResult == [kind |-> "none", arr |-> << >>, msg |-> << >>]

\* the table without its 529 case
getErrorMessageFromStatusWithout529(status) ==
    CASE status = 400 -> << "Translation request is invalid. Please try again." >>
      [] status = 403 -> << "This API key is invalid. Please check your DeepL translation key in settings." >>
      [] status = 404 -> << "Cannot connect to DeepL. Please contact the extension developer." >>
      [] status = 413 -> << "Subtitle text is too large. Please contact the extension developer." >>
      [] status = 414 -> << "Request URL is too long. Please contact the extension developer." >>
      [] status = 429 -> << "You're translating too quickly. Please wait a moment and try again." >>
      [] status = 456 -> << "Monthly character limit reached. Please use a different translation key or upgrade your plan." >>
      [] status = 500 -> << "DeepL is having technical problems. Please try again in a few minutes." >>
      [] status = 504 -> << "DeepL is temporarily unavailable. Please try again in a few minutes." >>
      [] OTHER        -> << "Translation failed (error ", ToString(status), "). Please try again later." >>

getErrorMessageFromStatus(status) ==
    CASE status = 400 -> << "Translation request is invalid. Please try again." >>
      [] status = 403 -> << "This API key is invalid. Please check your DeepL translation key in settings." >>
      [] status = 404 -> << "Cannot connect to DeepL. Please contact the extension developer." >>
      [] status = 413 -> << "Subtitle text is too large. Please contact the extension developer." >>
      [] status = 414 -> << "Request URL is too long. Please contact the extension developer." >>
      [] status = 429 -> << "You're translating too quickly. Please wait a moment and try again." >>
      [] status = 456 -> << "Monthly character limit reached. Please use a different translation key or upgrade your plan." >>
      [] status = 500 -> << "DeepL is having technical problems. Please try again in a few minutes." >>
      [] status = 504 -> << "DeepL is temporarily unavailable. Please try again in a few minutes." >>
      [] status = 529 -> << "You're translating too quickly. Please wait a moment and try again." >>
      [] OTHER        -> << "Translation failed (error ", ToString(status), "). Please try again later." >>

\* the message translateTexts returns from its catch block
TranslateTextsCatchMessage ==
    << "Translation failed. Please check network or contact developers." >>

\* error.message of a rejected chrome.runtime.sendMessage
SendMessageErrorMessage == << "Extension context invalidated." >>

\* failure messages the service worker answers with in Spec
ReplyMessages == { getErrorMessageFromStatus(456) }

\* all sequences of length n over S
SeqsOfLen(S, n) == [1..n -> S]

\* what chrome.runtime.sendMessage can settle with for a batch of n texts
Outcomes(n) ==
    { OkResult(a) : a \in SeqsOfLen(Translations, n) }
    \cup { OkResult(a) : a \in SeqsOfLen(Translations, n - 1) }
    \cup { FailResult(m) : m \in ReplyMessages }
    \cup { UndefinedResult, RejectedResult(SendMessageErrorMessage) }

fetchTranslation(outcome) ==
    IF outcome.kind = "reject" THEN FailResult(outcome.msg) ELSE outcome

----------------------------------------------------------------------------
(* TranslationQueue *)

\* the pending list grown at its front
addToQueueFront(q, rawSubtitleFinnishText) == << rawSubtitleFinnishText >> \o q

addToQueue(q, rawSubtitleFinnishText) == Append(q, rawSubtitleFinnishText)

\* the batch loop bounded by the length of the pending list only
RECURSIVE ShiftLoopUncapped(_, _, _)
ShiftLoopUncapped(q, toProcessItems, i) ==
    IF i < Len(q)
    THEN ShiftLoopUncapped(Tail(q), Append(toProcessItems, Head(q)), i + 1)
    ELSE [queue |-> q, items |-> toProcessItems]

\* for (let i = 0; i < Math.min(this.queue.length, BATCH_MAXIMUM_SIZE); i++)
\*   toProcessItems.push(this.queue.shift())
RECURSIVE ShiftLoop(_, _, _)
ShiftLoop(q, toProcessItems, i) ==
    IF i < Min(Len(q), BATCH_MAXIMUM_SIZE)
    THEN ShiftLoop(Tail(q), Append(toProcessItems, Head(q)), i + 1)
    ELSE [queue |-> q, items |-> toProcessItems]

\* the while loop that leaves isProcessing set when it ends
WhileLoopKeepingFlag(q, enabled) ==
    IF Len(q) > 0 /\ enabled
    THEN LET s == ShiftLoop(q, << >>, 0)
         IN  [queue |-> s.queue, isProcessing |-> TRUE, submitted |-> TRUE,
              items |-> s.items, before |-> q]
    ELSE [queue |-> q, isProcessing |-> TRUE, submitted |-> FALSE,
          items |-> << >>, before |-> q]

\* the while loop that does not look at dualSubEnabled
WhileLoopIgnoringSwitch(q, enabled) ==
    IF Len(q) > 0
    THEN LET s == ShiftLoop(q, << >>, 0)
         IN  [queue |-> s.queue, isProcessing |-> TRUE, submitted |-> TRUE,
              items |-> s.items, before |-> q]
    ELSE [queue |-> q, isProcessing |-> FALSE, submitted |-> FALSE,
          items |-> << >>, before |-> q]

\* the while loop of processQueue from its condition to the next await (or to
\* the end of the function)
WhileLoop(q, enabled) ==
    IF Len(q) > 0 /\ enabled
    THEN LET s == ShiftLoop(q, << >>, 0)
         IN  [queue |-> s.queue, isProcessing |-> TRUE, submitted |-> TRUE,
              items |-> s.items, before |-> q]
    ELSE [queue |-> q, isProcessing |-> FALSE, submitted |-> FALSE,
          items |-> << >>, before |-> q]

\* processQueue entered without looking at isProcessing
processQueueUnguarded(q, processing, enabled) ==
    IF Len(q) = 0
    THEN [queue |-> q, isProcessing |-> processing, submitted |-> FALSE,
          items |-> << >>, before |-> q]
    ELSE WhileLoop(q, enabled)

\* a call of processQueue up to its first await (or its return)
processQueue(q, processing, enabled) ==
    IF processing \/ Len(q) = 0
    THEN [queue |-> q, isProcessing |-> processing, submitted |-> FALSE,
          items |-> << >>, before |-> q]
    ELSE WhileLoop(q, enabled)

SubtitleRecord(movieName, language, originalText, translatedText) ==
    [movieName |-> movieName, originalLanguage |-> "FI", targetLanguage |-> language,
     originalText |-> originalText, translatedText |-> translatedText]

\* the success branch reading the translations back to front
RECURSIVE SuccessLoopReversed(_, _, _, _, _)
SuccessLoopReversed(toProcessItems, translatedTexts, i, map, toCacheSubtitleRecords) ==
    IF i > Len(toProcessItems)
    THEN [map |-> map, records |-> toCacheSubtitleRecords, threw |-> FALSE]
    ELSE IF i > Len(translatedTexts)
    THEN [map |-> map, records |-> toCacheSubtitleRecords, threw |-> TRUE]
    ELSE LET sharedTranslationMapKey   == toTranslationKey(toProcessItems[i])
             sharedTranslationMapValue ==
                 toTranslationValue(translatedTexts[Len(translatedTexts) + 1 - i])
         IN  SuccessLoopReversed(toProcessItems, translatedTexts, i + 1,
                 MapSet(map, sharedTranslationMapKey, sharedTranslationMapValue),
                 IF currentMovieName # NoMovie
                 THEN Append(toCacheSubtitleRecords,
                             SubtitleRecord(currentMovieName, targetLanguage,
                                            sharedTranslationMapKey, sharedTranslationMapValue))
                 ELSE toCacheSubtitleRecords)

\* the for loop of the success branch; translatedTexts[i] is undefined past the
\* end of the array and undefined.trim() throws
RECURSIVE SuccessLoop(_, _, _, _, _)
SuccessLoop(toProcessItems, translatedTexts, i, map, toCacheSubtitleRecords) ==
    IF i > Len(toProcessItems)
    THEN [map |-> map, records |-> toCacheSubtitleRecords, threw |-> FALSE]
    ELSE IF i > Len(translatedTexts)
    THEN [map |-> map, records |-> toCacheSubtitleRecords, threw |-> TRUE]
    ELSE LET sharedTranslationMapKey   == toTranslationKey(toProcessItems[i])
             sharedTranslationMapValue == toTranslationValue(translatedTexts[i])
         IN  SuccessLoop(toProcessItems, translatedTexts, i + 1,
                 MapSet(map, sharedTranslationMapKey, sharedTranslationMapValue),
                 IF currentMovieName # NoMovie
                 THEN Append(toCacheSubtitleRecords,
                             SubtitleRecord(currentMovieName, targetLanguage,
                                            sharedTranslationMapKey, sharedTranslationMapValue))
                 ELSE toCacheSubtitleRecords)

\* the failure branch keyed by the raw text
RECURSIVE ErrorLoopRawKey(_, _, _, _)
ErrorLoopRawKey(toProcessItems, translationErrorMessage, i, errorMap) ==
    IF i > Len(toProcessItems) THEN errorMap
    ELSE ErrorLoopRawKey(toProcessItems, translationErrorMessage, i + 1,
             MapSet(errorMap, toProcessItems[i], << "Error: " >> \o translationErrorMessage))

\* the for loop of the failure branch
RECURSIVE ErrorLoop(_, _, _, _)
ErrorLoop(toProcessItems, translationErrorMessage, i, errorMap) ==
    IF i > Len(toProcessItems) THEN errorMap
    ELSE ErrorLoop(toProcessItems, translationErrorMessage, i + 1,
             MapSet(errorMap, toTranslationKey(toProcessItems[i]),
                    << "Error: " >> \o translationErrorMessage))

\* the try block of processQueue once fetchTranslation has returned `result`
HandleResult(toProcessItems, result) ==
    IF result.kind = "ok"
    THEN LET r == SuccessLoop(toProcessItems, result.arr, 1, sharedTranslationMap, << >>)
         IN  [map |-> r.map, errorMap |-> sharedTranslationErrorMap,
              transactions |-> IF ~r.threw /\ globalDatabaseInstance
                               THEN Append(saveTransactions, r.records)
                               ELSE saveTransactions]
    ELSE IF result.kind = "fail"
    THEN [map |-> sharedTranslationMap,
          errorMap |-> ErrorLoop(toProcessItems, result.msg, 1, sharedTranslationErrorMap),
          transactions |-> saveTransactions]
    \* destructuring undefined throws; the catch block only logs
    ELSE [map |-> sharedTranslationMap, errorMap |-> sharedTranslationErrorMap,
          transactions |-> saveTransactions]

----------------------------------------------------------------------------
(* Subtitle store *)

\* a key path that also holds the translation
SubtitleKeyWithTranslation(r) ==
    << r.movieName, r.originalLanguage, r.targetLanguage, r.originalText, r.translatedText >>

\* keyPath: ['movieName', 'originalLanguage', 'targetLanguage', 'originalText']
SubtitleKey(r) == << r.movieName, r.originalLanguage, r.targetLanguage, r.originalText >>

\* objectStore.put for every subtitle of one transaction, in order
RECURSIVE PutAll(_, _)
PutAll(store, subtitles) ==
    IF subtitles = << >> THEN store
    ELSE PutAll(MapSet(store, SubtitleKey(Head(subtitles)), Head(subtitles)), Tail(subtitles))

\* the index read without the target language
loadSubtitlesByMovieNameAnyLanguage(store, movieName, language) ==
    { store[k] : k \in { x \in DOMAIN store : x[1] = movieName /\ x[2] = "FI" } }

\* index.getAll([movieName, "FI", targetLanguage])
loadSubtitlesByMovieName(store, movieName, language) ==
    { store[k] : k \in { x \in DOMAIN store : x[1] = movieName /\ x[2] = "FI" /\ x[3] = language } }

----------------------------------------------------------------------------
(* History *)

Event(op, text, items, outcome) ==
    [op |-> op, text |-> text, items |-> items, outcome |-> outcome]

\* Math.floor(Date.now() / (1000 * 60 * 60 * 24)) of the session
NowDays == 20393

IdleMovieLoad == [pc |-> "idle", movieName |-> NoMovie, language |-> "", after |-> 0]

\* no fetch() issued
NoRequest == [apiKey |-> "", url |-> ""]

IdleBg == [pc |-> "idle", texts |-> << >>, attempt |-> 0, attempts |-> << >>,
           sleeps |-> << >>, result |-> NoResult, request |-> NoRequest]

----------------------------------------------------------------------------
(* database.js: the IndexedDB database YleDualSubCache *)

SUBTITLE_CACHE_OBJECT_STORE == "SubtitlesCache"

DEPRECATED_ENGLISH_SUBTITLE_CACHE_OBJECT_STORE == "EnglishSubtitlesCache"

MOVIE_METADATA_OBJECT_STORE == "MovieMetadata"

\* a database that does not exist yet: indexedDB.open reports oldVersion 0
NewDatabase ==
    [version |-> 0, objectStoreNames |-> {}, indexNames |-> {}, connected |-> FALSE]

\* version 1: the metadata store and the deprecated cache
Version1Database ==
    [version |-> 1,
     objectStoreNames |-> { MOVIE_METADATA_OBJECT_STORE,
                            DEPRECATED_ENGLISH_SUBTITLE_CACHE_OBJECT_STORE },
     indexNames |-> {}, connected |-> FALSE]

\* version 2, as an earlier session left it
Version2Database ==
    [version |-> 2,
     objectStoreNames |-> { MOVIE_METADATA_OBJECT_STORE, SUBTITLE_CACHE_OBJECT_STORE },
     indexNames |-> { << SUBTITLE_CACHE_OBJECT_STORE, "movieSubtitlesByLanguage" >> },
     connected |-> FALSE]

\* db.createObjectStore(name, ...); a name that exists throws ConstraintError,
\* which ends the handler and aborts the upgrade
createObjectStore(u, name) ==
    IF u.aborted THEN u
    ELSE IF name \in u.objectStoreNames THEN [u EXCEPT !.aborted = TRUE]
    ELSE [u EXCEPT !.objectStoreNames = @ \cup {name},
                   !.steps = Append(@, << "createObjectStore", name >>)]

\* objectStore.createIndex(indexName, ...)
createIndex(u, name, indexName) ==
    IF u.aborted THEN u
    ELSE IF << name, indexName >> \in u.indexNames THEN [u EXCEPT !.aborted = TRUE]
    ELSE [u EXCEPT !.indexNames = @ \cup { << name, indexName >> },
                   !.steps = Append(@, << "createIndex", indexName >>)]

\* db.deleteObjectStore(name): the store goes with its indexes
deleteObjectStore(u, name) ==
    IF u.aborted THEN u
    ELSE IF name \notin u.objectStoreNames THEN [u EXCEPT !.aborted = TRUE]
    ELSE [u EXCEPT !.objectStoreNames = @ \ {name},
                   !.indexNames = { x \in @ : x[1] # name },
                   !.steps = Append(@, << "deleteObjectStore", name >>)]

\* the upgrade that leaves the deprecated cache in place
onupgradeneededKeepingDeprecated(db, oldVersion) ==
    LET u0 == [objectStoreNames |-> db.objectStoreNames, indexNames |-> db.indexNames,
               steps |-> << >>, aborted |-> FALSE]
        u1 == IF oldVersion < 1
              THEN createObjectStore(u0, MOVIE_METADATA_OBJECT_STORE)
              ELSE u0
    IN  IF oldVersion < 2
        THEN createIndex(createObjectStore(u1, SUBTITLE_CACHE_OBJECT_STORE),
                         SUBTITLE_CACHE_OBJECT_STORE, "movieSubtitlesByLanguage")
        ELSE u1

\* DBOpenRequest.onupgradeneeded
onupgradeneeded(db, oldVersion) ==
    LET u0 == [objectStoreNames |-> db.objectStoreNames, indexNames |-> db.indexNames,
               steps |-> << >>, aborted |-> FALSE]
        u1 == IF oldVersion < 1
              THEN createObjectStore(u0, MOVIE_METADATA_OBJECT_STORE)
              ELSE u0
    IN  IF oldVersion < 2
        THEN LET subtitlesObjectStore ==
                     createIndex(createObjectStore(u1, SUBTITLE_CACHE_OBJECT_STORE),
                                 SUBTITLE_CACHE_OBJECT_STORE, "movieSubtitlesByLanguage")
             IN  IF DEPRECATED_ENGLISH_SUBTITLE_CACHE_OBJECT_STORE
                        \in subtitlesObjectStore.objectStoreNames
                 THEN deleteObjectStore(subtitlesObjectStore,
                                        DEPRECATED_ENGLISH_SUBTITLE_CACHE_OBJECT_STORE)
                 ELSE subtitlesObjectStore
        ELSE u1

\* indexedDB.open(DATABASE, 2): the upgrade runs when the stored version is
\* below 2; an aborted upgrade leaves the database as it was and rejects
openDatabase(db) ==
    IF db.version < 2
    THEN LET u == onupgradeneeded(db, db.version)
         IN  IF u.aborted
             THEN [db |-> db, resolved |-> FALSE, steps |-> << >>]
             ELSE [db |-> [version |-> 2, objectStoreNames |-> u.objectStoreNames,
                           indexNames |-> u.indexNames, connected |-> TRUE],
                   resolved |-> TRUE, steps |-> u.steps]
    ELSE [db |-> [db EXCEPT !.connected = TRUE], resolved |-> TRUE, steps |-> << >>]

\* the records of an object store after the upgrade steps `steps`: a store
\* that was created is empty
RecordsAfter(steps, name, records) ==
    IF \E i \in 1..Len(steps) : steps[i] = << "createObjectStore", name >>
    THEN EmptyMap
    ELSE records

\* code units in increasing order; "<U+FFFF>" is the string "\uffff"
CodeUnitOrder ==
    << "\n", " ", "-", "1", "A", "B", "E", "F", "I", "M", "N", "S", "U", "V",
       "a", "b", "c", "d", "e", "h", "i", "m", "o", "v", "x", "y", "z", "<U+FFFF>" >>

CodeUnit(c) == CHOOSE n \in 1..Len(CodeUnitOrder) : CodeUnitOrder[n] = c

\* the characters of the movie names and language codes
Chars(s) ==
    CASE s = "Movie A" -> << "M", "o", "v", "i", "e", " ", "A" >>
      [] s = "Movie B" -> << "M", "o", "v", "i", "e", " ", "B" >>
      [] s = "FI"      -> << "F", "I" >>
      [] s = "EN-US"   -> << "E", "N", "-", "U", "S" >>
      [] s = "VI"      -> << "V", "I" >>
      [] s = ""        -> << >>

\* IndexedDB key order of two strings: by code unit, a proper prefix first
RECURSIVE StringLess(_, _)
StringLess(a, b) ==
    IF b = << >> THEN FALSE
    ELSE IF a = << >> THEN TRUE
    ELSE IF Head(a) = Head(b) THEN StringLess(Tail(a), Tail(b))
    ELSE CodeUnit(Head(a)) < CodeUnit(Head(b))

\* IndexedDB key order of two array keys: element by element, a proper prefix first
RECURSIVE KeyLess(_, _)
KeyLess(a, b) ==
    IF b = << >> THEN FALSE
    ELSE IF a = << >> THEN TRUE
    ELSE IF Head(a) = Head(b) THEN KeyLess(Tail(a), Tail(b))
    ELSE StringLess(Head(a), Head(b))

\* the primary key of a stored subtitle, character by character
KeyChars(k) == << Chars(k[1]), Chars(k[2]), Chars(k[3]), k[4] >>

\* IDBKeyRange.bound(lower, upper).includes(key)
InKeyRange(key, lower, upper) == ~KeyLess(key, lower) /\ ~KeyLess(upper, key)

\* saveSubtitle: objectStore.put of one subtitle with originalLanguage "FI"
saveSubtitle(store, movieName, language, originalText, translatedText) ==
    LET subtitle == SubtitleRecord(movieName, language, originalText, translatedText)
    IN  MapSet(store, SubtitleKey(subtitle), subtitle)

\* what IndexedDB can do to a saveSubtitlesBatch transaction of n puts
NoFault == [kind |-> "none", at |-> 0]

Faults(n) ==
    { NoFault, [kind |-> "abort", at |-> 0] }
    \cup { [kind |-> k, at |-> i] : k \in {"put-throws", "request-error"}, i \in 1..n }

\* saveSubtitlesBatch(db, subtitles)
\*   none           every put succeeds, oncomplete resolves savedCount
\*   put-throws     put number `at` throws (DataError): the catch block rejects,
\*                  the puts before it commit, the ones after it are never made
\*   request-error  put number `at` fails: its error event sets errorOccurred,
\*                  bubbles to transaction.onerror, which rejects, and the
\*                  transaction aborts
\*   abort          the transaction aborts at commit (QuotaExceededError): only
\*                  an abort event fires, which has no handler
saveSubtitlesBatch(store, subtitles, fault) ==
    CASE fault.kind = "none" ->
             [store |-> PutAll(store, subtitles), promise |-> "resolved",
              savedCount |-> Len(subtitles)]
      [] fault.kind = "put-throws" ->
             [store |-> PutAll(store, SubSeq(subtitles, 1, fault.at - 1)),
              promise |-> "rejected", savedCount |-> 0]
      [] fault.kind = "request-error" ->
             [store |-> store, promise |-> "rejected", savedCount |-> 0]
      [] fault.kind = "abort" ->
             [store |-> store, promise |-> "pending", savedCount |-> 0]

\* the cursor opened on the index of one language pair
clearSubtitlesByMovieNameOneLanguage(store, movieName) ==
    LET keys == { k \in DOMAIN store :
                     k[1] = movieName /\ k[2] = "FI" /\ k[3] = "EN-US" }
    IN  [store |-> [k \in (DOMAIN store) \ keys |-> store[k]],
         deletedCount |-> Cardinality(keys)]

\* clearSubtitlesByMovieName: a cursor over
\* IDBKeyRange.bound([movieName, "", "", ""], [movieName, "\uffff", "\uffff", "\uffff"])
\* deletes every record it visits
clearSubtitlesByMovieName(store, movieName) ==
    LET lower == << Chars(movieName), << >>, << >>, << >> >>
        upper == << Chars(movieName), << "<U+FFFF>" >>, << "<U+FFFF>" >>, << "<U+FFFF>" >> >>
        keys  == { k \in DOMAIN store : InKeyRange(KeyChars(k), lower, upper) }
    IN  [store |-> [k \in (DOMAIN store) \ keys |-> store[k]],
         deletedCount |-> Cardinality(keys)]

\* objectStore.getAll() of the metadata store
getAllMovieMetadata(metadata) == { metadata[k] : k \in DOMAIN metadata }

\* objectStore.delete(movieName)
deleteMovieMetadata(metadata, movieName) ==
    [k \in (DOMAIN metadata) \ {movieName} |-> metadata[k]]

\* the filter that also takes the movies accessed on the cutoff day
oldMovieMetadatasInclusive(allMetadata, cutoffDays) ==
    { m \in allMetadata : m.lastAccessedDays <= cutoffDays }

\* allMetadata.filter(metadata => metadata.lastAccessedDays < cutoffDays)
oldMovieMetadatas(allMetadata, cutoffDays) ==
    { m \in allMetadata : m.lastAccessedDays < cutoffDays }

\* what IndexedDB does to the calls of one sweep: getAll tells whether the
\* getAll request of getAllMovieMetadata fails, and for every movie
\*   none            both transactions of the movie succeed
\*   clear-rejects   the cursor request of clearSubtitlesByMovieName fails (or
\*                   db.transaction throws): the promise rejects and the
\*                   transaction is rolled back
\*   delete-rejects  the delete request of deleteMovieMetadata fails (or
\*                   db.transaction throws): the promise rejects and the
\*                   record stays
NoSweepFaults(movies) == [getAll |-> FALSE, movie |-> [m \in movies |-> "none"]]

SweepFaults(movies) ==
    { [getAll |-> FALSE, movie |-> f] :
         f \in [movies -> { "none", "clear-rejects", "delete-rejects" }] }
    \cup { [getAll |-> TRUE, movie |-> [m \in movies |-> "none"]] }

\* one call made by the sweep and how its promise settled
SweepStep(op, movieName, promise) == [op |-> op, movieName |-> movieName, promise |-> promise]

\* the try block with the metadata record deleted before the units
CleanupMovieMetadataFirst(store, metadata, movieName, fault) ==
    IF fault = "delete-rejects"
    THEN [store |-> store, metadata |-> metadata, cleaned |-> FALSE,
          steps |-> << SweepStep("deleteMovieMetadata", movieName, "rejected") >>]
    ELSE IF fault = "clear-rejects"
    THEN [store |-> store, metadata |-> deleteMovieMetadata(metadata, movieName),
          cleaned |-> FALSE,
          steps |-> << SweepStep("deleteMovieMetadata", movieName, "resolved"),
                       SweepStep("clearSubtitlesByMovieName", movieName, "rejected") >>]
    ELSE [store |-> clearSubtitlesByMovieName(store, movieName).store,
          metadata |-> deleteMovieMetadata(metadata, movieName), cleaned |-> TRUE,
          steps |-> << SweepStep("deleteMovieMetadata", movieName, "resolved"),
                       SweepStep("clearSubtitlesByMovieName", movieName, "resolved") >>]

\* try { await clearSubtitlesByMovieName; await deleteMovieMetadata;
\* cleanedCount++ } catch (error) { console.warn(...) }
CleanupMovie(store, metadata, movieName, fault) ==
    IF fault = "clear-rejects"
    THEN [store |-> store, metadata |-> metadata, cleaned |-> FALSE,
          steps |-> << SweepStep("clearSubtitlesByMovieName", movieName, "rejected") >>]
    ELSE IF fault = "delete-rejects"
    THEN [store |-> clearSubtitlesByMovieName(store, movieName).store,
          metadata |-> metadata, cleaned |-> FALSE,
          steps |-> << SweepStep("clearSubtitlesByMovieName", movieName, "resolved"),
                       SweepStep("deleteMovieMetadata", movieName, "rejected") >>]
    ELSE [store |-> clearSubtitlesByMovieName(store, movieName).store,
          metadata |-> deleteMovieMetadata(metadata, movieName), cleaned |-> TRUE,
          steps |-> << SweepStep("clearSubtitlesByMovieName", movieName, "resolved"),
                       SweepStep("deleteMovieMetadata", movieName, "resolved") >>]

\* getAll() returns the records in key order: the first of them
FirstByKey(old) ==
    CHOOSE x \in old :
       \A y \in old \ {x} : StringLess(Chars(x.movieName), Chars(y.movieName))

\* the loop with the failure of one movie thrown out of the sweep
RECURSIVE CleanupLoopRethrowing(_, _, _, _, _, _)
CleanupLoopRethrowing(store, metadata, old, cleanedCount, faults, steps) ==
    IF old = {}
    THEN [store |-> store, metadata |-> metadata, cleanedCount |-> cleanedCount,
          steps |-> steps, promise |-> "resolved"]
    ELSE LET m == FirstByKey(old)
             c == CleanupMovie(store, metadata, m.movieName, faults.movie[m.movieName])
         IN  IF c.cleaned
             THEN CleanupLoopRethrowing(c.store, c.metadata, old \ {m}, cleanedCount + 1,
                                        faults, steps \o c.steps)
             ELSE [store |-> c.store, metadata |-> c.metadata, cleanedCount |-> 0,
                   steps |-> steps \o c.steps, promise |-> "rejected"]

\* for (const metadata of oldMovieMetadatas) { try { ... } catch { ... } }
RECURSIVE CleanupLoop(_, _, _, _, _, _)
CleanupLoop(store, metadata, old, cleanedCount, faults, steps) ==
    IF old = {}
    THEN [store |-> store, metadata |-> metadata, cleanedCount |-> cleanedCount,
          steps |-> steps, promise |-> "resolved"]
    ELSE LET m == FirstByKey(old)
             c == CleanupMovie(store, metadata, m.movieName, faults.movie[m.movieName])
         IN  CleanupLoop(c.store, c.metadata, old \ {m},
                         IF c.cleaned THEN cleanedCount + 1 ELSE cleanedCount,
                         faults, steps \o c.steps)

\* cleanupOldMovieData(db, maxAgeDays); a rejection of getAllMovieMetadata is
\* rethrown by the outer catch block
cleanupOldMovieData(store, metadata, maxAgeDays, faults) ==
    LET nowDays     == NowDays
        cutoffDays  == nowDays - maxAgeDays
        allMetadata == getAllMovieMetadata(metadata)
    IN  IF faults.getAll
        THEN [store |-> store, metadata |-> metadata, cleanedCount |-> 0,
              steps |-> << >>, promise |-> "rejected"]
        ELSE CleanupLoop(store, metadata, oldMovieMetadatas(allMetadata, cutoffDays), 0,
                         faults, << >>)

(* Inputs of the database functions *)

StoreMovies == { "Movie A", "Movie B" }

StoreLanguages == { "EN-US", "VI" }

Hei == << "h", "e", "i" >>

StoreTranslations == { << "h", "i" >>, << "m", "o", "i" >> }

Unit(movieName, language, translatedText) ==
    SubtitleRecord(movieName, language, Hei, translatedText)

\* the batches saveSubtitlesBatch is called with
SaveBatches ==
    { << >>,
      << Unit("Movie A", "EN-US", << "h", "i" >>) >>,
      << Unit("Movie A", "EN-US", << "h", "i" >>), Unit("Movie A", "EN-US", << "m", "o", "i" >>) >>,
      << Unit("Movie A", "VI", << "m", "o", "i" >>), Unit("Movie B", "EN-US", << "h", "i" >>) >> }

\* lastAccessedDays of a movie: 40, 30 and 10 days before today
AccessDays == { NowDays - 40, NowDays - 30, NowDays - 10 }

\* maxAgeDays: the default of cleanupOldMovieData
MaxAges == { 30 }

\* the database function that ran last: its name, its arguments, the stores
\* before the call and what it returned
DbCall(op, args, result) ==
    [op |-> op, args |-> args,
     before |-> [subtitleStore |-> subtitleStore, movieMetadata |-> movieMetadata,
                 schema |-> schema],
     result |-> result]

NoDbCall ==
    [op |-> "none", args |-> << >>,
     before |-> [subtitleStore |-> EmptyMap, movieMetadata |-> EmptyMap,
                 schema |-> NewDatabase],
     result |-> 0]

\* no options page open, no key computed, nothing rendered
NoKeyCall == [rawSubtitleFinnishText |-> << >>, translationKey |-> << >>,
              edit |-> "none", previousKey |-> << >>]

NoDisplay == [finnishText |-> << >>, targetLanguageText |-> << >>]

\* cleanupOldMovieData not running: not called yet, or called on a store
\* without old movies
IdleSweep == [pc |-> "idle", old |-> << >>, cleanedCount |-> 0]

\* the startup loads of the scripts have completed
InitStart ==
    /\ languageLoad = "done"
    /\ sweep = IdleSweep
    /\ storage = << >>
    /\ worker = [deeplTokenKey |-> "", isDeepLPro |-> FALSE, load |-> "done"]

InitPages ==
    /\ tokenInfos = << >>
    /\ tokenSubmits = << >>
    /\ keyCall = NoKeyCall
    /\ displayed = NoDisplay
    /\ InitStart

----------------------------------------------------------------------------
(* Content script *)

Init ==
    /\ queue = << >>
    /\ isProcessing = FALSE
    /\ dualSubEnabled = FALSE
    /\ sharedTranslationMap = EmptyMap
    /\ sharedTranslationErrorMap = EmptyMap
    /\ currentMovieName = NoMovie
    /\ globalDatabaseInstance = FALSE
    /\ targetLanguage = "EN-US"
    /\ subtitleStore = EmptyMap
    /\ saveTransactions = << >>
    /\ drains = << >>
    /\ cuesSeen = 0
    /\ ev = Event("init", << >>, << >>, NoResult)
    /\ movieLoad = IdleMovieLoad
    /\ movieMetadata = EmptyMap
    /\ bg = IdleBg
    /\ arrived = << >>
    /\ submitted = << >>
    /\ schema = Version2Database
    /\ dbCall = NoDbCall
    /\ InitPages

\* the cache looked up with the raw text
IsAlreadyTranslatedRaw(map, rawSubtitleFinnishText) ==
    rawSubtitleFinnishText \in DOMAIN map

\* sharedTranslationMap.has(toTranslationKey(rawSubtitleFinnishText))
IsAlreadyTranslated(map, rawSubtitleFinnishText) ==
    toTranslationKey(rawSubtitleFinnishText) \in DOMAIN map

\* `drains` after a processQueue step p
Suspended(ds, p) ==
    IF p.submitted
    THEN Append(ds, [items |-> p.items, before |-> p.before, targetLanguage |-> targetLanguage])
    ELSE ds

\* the listener echoing the text of the cue instead of its key
SendTranslationTextEventEchoingRaw(rawSubtitleFinnishText) ==
    /\ cuesSeen < MaxCues
    /\ cuesSeen' = cuesSeen + 1
    /\ ev' = Event("cue", rawSubtitleFinnishText, << >>, NoResult)
    /\ LET translationKey == toTranslationKey(rawSubtitleFinnishText)
       IN  IF IsAlreadyTranslated(sharedTranslationMap, rawSubtitleFinnishText)
           THEN UNCHANGED << queue, isProcessing, drains, sharedTranslationMap >>
           ELSE IF Len(translationKey) <= 1 \/ ~HasFinnishLetter(translationKey)
           THEN /\ sharedTranslationMap' = MapSet(sharedTranslationMap, translationKey,
                                                rawSubtitleFinnishText)
                /\ UNCHANGED << queue, isProcessing, drains >>
           ELSE LET q == addToQueue(queue, rawSubtitleFinnishText)
                    p == processQueue(q, isProcessing, dualSubEnabled)
                IN  /\ queue' = p.queue
                    /\ isProcessing' = p.isProcessing
                    /\ drains' = Suspended(drains, p)
                    /\ UNCHANGED sharedTranslationMap
    /\ UNCHANGED << dualSubEnabled, sharedTranslationErrorMap, currentMovieName,
                    globalDatabaseInstance, targetLanguage, subtitleStore,
                    saveTransactions, movieLoad, movieMetadata, bg, otherVars >>

\* document.addEventListener("sendTranslationTextEvent", ...)
SendTranslationTextEvent(rawSubtitleFinnishText) ==
    /\ cuesSeen < MaxCues
    /\ cuesSeen' = cuesSeen + 1
    /\ ev' = Event("cue", rawSubtitleFinnishText, << >>, NoResult)
    /\ LET translationKey == toTranslationKey(rawSubtitleFinnishText)
       IN  IF IsAlreadyTranslated(sharedTranslationMap, rawSubtitleFinnishText)
           THEN UNCHANGED << queue, isProcessing, drains, sharedTranslationMap >>
           ELSE IF Len(translationKey) <= 1 \/ ~HasFinnishLetter(translationKey)
           THEN /\ sharedTranslationMap' = MapSet(sharedTranslationMap, translationKey, translationKey)
                /\ UNCHANGED << queue, isProcessing, drains >>
           ELSE LET q == addToQueue(queue, rawSubtitleFinnishText)
                    p == processQueue(q, isProcessing, dualSubEnabled)
                IN  /\ queue' = p.queue
                    /\ isProcessing' = p.isProcessing
                    /\ drains' = Suspended(drains, p)
                    /\ UNCHANGED sharedTranslationMap
    /\ UNCHANGED << dualSubEnabled, sharedTranslationErrorMap, currentMovieName,
                    globalDatabaseInstance, targetLanguage, subtitleStore,
                    saveTransactions, movieLoad, movieMetadata, bg, otherVars >>

\* the switch handler that does not call processQueue
DualSubSwitchChangeWithoutDrain(subtitlesWrapperPresent) ==
    LET checked == ~dualSubEnabled
        enabled == checked /\ subtitlesWrapperPresent
    IN  /\ dualSubEnabled' = enabled
        /\ ev' = Event(IF checked THEN "switch-on" ELSE "switch-off", << >>, << >>,
                       NoResult)
        /\ UNCHANGED << queue, isProcessing, drains >>
        /\ UNCHANGED << sharedTranslationMap, sharedTranslationErrorMap, currentMovieName,
                        globalDatabaseInstance, targetLanguage, subtitleStore,
                        saveTransactions, cuesSeen, movieLoad, movieMetadata, bg, otherVars >>

\* document.addEventListener("change", ...) for the dual-sub switch; the
\* checkbox mirrors dualSubEnabled, so a change event carries its negation
DualSubSwitchChange(subtitlesWrapperPresent) ==
    LET checked == ~dualSubEnabled
        enabled == checked /\ subtitlesWrapperPresent
        p == IF enabled
             THEN processQueue(queue, isProcessing, enabled)
             ELSE [queue |-> queue, isProcessing |-> isProcessing, submitted |-> FALSE,
                   items |-> << >>, before |-> queue]
    IN  /\ dualSubEnabled' = enabled
        /\ ev' = Event(IF checked THEN "switch-on" ELSE "switch-off", << >>, << >>,
                       NoResult)
        /\ queue' = p.queue
        /\ isProcessing' = p.isProcessing
        /\ drains' = Suspended(drains, p)
        /\ UNCHANGED << sharedTranslationMap, sharedTranslationErrorMap, currentMovieName,
                        globalDatabaseInstance, targetLanguage, subtitleStore,
                        saveTransactions, cuesSeen, movieLoad, movieMetadata, bg, otherVars >>

RemoveAt(seq, i) == SubSeq(seq, 1, i - 1) \o SubSeq(seq, i + 1, Len(seq))

\* processQueue awaiting saveSubtitlesBatch before it goes round the loop
FetchTranslationSettledAwaitingSave(d, outcome) ==
    LET toProcessItems == drains[d].items
        result == fetchTranslation(outcome)
        h == HandleResult(toProcessItems, result)
        w == IF h.transactions # saveTransactions
             THEN [queue |-> queue, isProcessing |-> TRUE, submitted |-> FALSE,
                   items |-> << >>, before |-> queue]
             ELSE WhileLoop(queue, dualSubEnabled)
    IN  /\ sharedTranslationMap' = h.map
        /\ sharedTranslationErrorMap' = h.errorMap
        /\ saveTransactions' = h.transactions
        /\ queue' = w.queue
        /\ isProcessing' = w.isProcessing
        /\ drains' = Suspended(RemoveAt(drains, d), w)
        /\ ev' = Event("settled", << >>, toProcessItems, outcome)
        /\ UNCHANGED << dualSubEnabled, currentMovieName, globalDatabaseInstance,
                        targetLanguage, subtitleStore, cuesSeen, movieLoad,
                        movieMetadata, bg, otherVars >>

\* processQueue from the point where `await fetchTranslation(toProcessItems)`
\* resumes to its next await or its return
FetchTranslationSettled(d, outcome) ==
    LET toProcessItems == drains[d].items
        result == fetchTranslation(outcome)
        h == HandleResult(toProcessItems, result)
        w == WhileLoop(queue, dualSubEnabled)
    IN  /\ sharedTranslationMap' = h.map
        /\ sharedTranslationErrorMap' = h.errorMap
        /\ saveTransactions' = h.transactions
        /\ queue' = w.queue
        /\ isProcessing' = w.isProcessing
        /\ drains' = Suspended(RemoveAt(drains, d), w)
        /\ ev' = Event("settled", << >>, toProcessItems, outcome)
        /\ UNCHANGED << dualSubEnabled, currentMovieName, globalDatabaseInstance,
                        targetLanguage, subtitleStore, cuesSeen, movieLoad,
                        movieMetadata, bg, otherVars >>

\* openDatabase().then(db => { globalDatabaseInstance = db; ... })
OpenDatabaseDone ==
    /\ ~globalDatabaseInstance
    /\ globalDatabaseInstance' = TRUE
    /\ ev' = Event("db-open", << >>, << >>, NoResult)
    /\ UNCHANGED << queue, isProcessing, dualSubEnabled, sharedTranslationMap,
                    sharedTranslationErrorMap, currentMovieName, targetLanguage,
                    subtitleStore, saveTransactions, drains, cuesSeen, movieLoad, movieMetadata, bg, otherVars >>

\* transaction.oncomplete of the oldest saveSubtitlesBatch transaction
SaveSubtitlesBatchComplete ==
    /\ saveTransactions # << >>
    /\ subtitleStore' = PutAll(subtitleStore, Head(saveTransactions))
    /\ saveTransactions' = Tail(saveTransactions)
    /\ movieLoad' = IF movieLoad.after > 0
                    THEN [movieLoad EXCEPT !.after = @ - 1]
                    ELSE movieLoad
    /\ ev' = Event("saved", << >>, << >>, NoResult)
    /\ UNCHANGED << queue, isProcessing, dualSubEnabled, sharedTranslationMap,
                    sharedTranslationErrorMap, currentMovieName, globalDatabaseInstance,
                    targetLanguage, drains, cuesSeen, movieMetadata, bg, otherVars >>

\* the MutationObserver sees the video element: loadMovieCacheAndUpdateMetadata
\* runs until getVideoTitle() has resolved and loadSubtitlesByMovieName has
\* opened its transaction
GetVideoTitleDone(title) ==
    /\ movieLoad.pc = "idle"
    /\ currentMovieName' = title
    /\ movieLoad' = IF title = NoMovie
                    THEN IdleMovieLoad
                    ELSE [pc |-> "load", movieName |-> title, language |-> targetLanguage,
                          after |-> Len(saveTransactions)]
    /\ ev' = Event("title", << >>, << >>, NoResult)
    /\ UNCHANGED << queue, isProcessing, dualSubEnabled, sharedTranslationMap,
                    sharedTranslationErrorMap, globalDatabaseInstance, targetLanguage,
                    subtitleStore, saveTransactions, drains, cuesSeen, movieMetadata, bg, otherVars >>

\* sharedTranslationMap.set(originalText, translatedText) for every record
RECURSIVE SetAll(_, _)
SetAll(map, subtitleRecords) ==
    IF subtitleRecords = {} THEN map
    ELSE LET r == CHOOSE x \in subtitleRecords : TRUE
         IN  SetAll(MapSet(map, r.originalText, r.translatedText), subtitleRecords \ {r})

\* objectStore.put({movieName, lastAccessedDays})
upsertMovieMetadata(store, movieName, lastAccessedDays) ==
    MapSet(store, movieName, [movieName |-> movieName, lastAccessedDays |-> lastAccessedDays])

\* loadSubtitlesByMovieName resolves: the map is pre-warmed and the metadata of
\* the current movie is upserted
LoadSubtitlesDone ==
    /\ movieLoad.pc = "load"
    /\ movieLoad.after = 0
    /\ sharedTranslationMap' =
          SetAll(sharedTranslationMap,
                 loadSubtitlesByMovieName(subtitleStore, movieLoad.movieName, movieLoad.language))
    /\ movieMetadata' = upsertMovieMetadata(movieMetadata, currentMovieName, NowDays)
    /\ movieLoad' = IdleMovieLoad
    /\ ev' = Event("loaded", << >>, << >>, NoResult)
    /\ UNCHANGED << queue, isProcessing, dualSubEnabled, sharedTranslationErrorMap,
                    currentMovieName, globalDatabaseInstance, targetLanguage,
                    subtitleStore, saveTransactions, drains, cuesSeen, bg, otherVars >>

Next ==
    \/ \E t \in CueTexts : SendTranslationTextEvent(t)
    \/ \E present \in BOOLEAN : DualSubSwitchChange(present)
    \/ \E d \in 1..Len(drains) : \E o \in Outcomes(Len(drains[d].items)) : FetchTranslationSettled(d, o)
    \/ OpenDatabaseDone
    \/ SaveSubtitlesBatchComplete
    \/ \E title \in MovieNames \cup {NoMovie} : GetVideoTitleDone(title)
    \/ LoadSubtitlesDone

Spec == Init /\ [][Next]_vars

----------------------------------------------------------------------------
(* Service worker: retry controller *)

\* HTTP statuses DeepL answers a failed request with
ErrorStatuses == { 400, 403, 404, 413, 414, 429, 456, 500, 503, 504, 529 }

\* batches the content script asks the service worker to translate
RequestBatches == { << << "a", "b" >> >>, << << "a", "b" >>, << "c", "\n", "d" >> >> }

\* what fetch() and response.json() can do for a request of n texts
FetchOk(arr) == [kind |-> "http-ok", status |-> 200, arr |-> arr]

FetchNotOk(status) == [kind |-> "http-error", status |-> status, arr |-> << >>]

FetchThrows == [kind |-> "throw", status |-> 0, arr |-> << >>]

FetchUnparsable == [kind |-> "unparsable", status |-> 200, arr |-> << >>]

FetchOutcomes(n) ==
    { FetchOk(a) : a \in SeqsOfLen(Translations, n) }
    \cup { FetchNotOk(st) : st \in ErrorStatuses }
    \cup { FetchThrows, FetchUnparsable }

\* [true, translatedTexts] | [false, DeepLTranslationError] | [false, string]
translateTexts(fetched) ==
    IF fetched.kind = "http-error"
    THEN [isSucceeded |-> FALSE, isDeepLTranslationError |-> TRUE,
          status |-> fetched.status, arr |-> << >>, msg |-> << >>]
    ELSE IF fetched.kind = "http-ok"
    THEN [isSucceeded |-> TRUE, isDeepLTranslationError |-> FALSE,
          status |-> 0, arr |-> fetched.arr, msg |-> << >>]
    ELSE [isSucceeded |-> FALSE, isDeepLTranslationError |-> FALSE,
          status |-> 0, arr |-> << >>, msg |-> TranslateTextsCatchMessage]

\* the retry list with 456 added
IsRetryableStatusWith456(errorStatusCode) ==
    errorStatusCode \in { 413, 429, 456, 503, 504, 529 }

\* [413, 429, 503, 504, 529].includes(errorStatusCode)
IsRetryableStatus(errorStatusCode) == errorStatusCode \in { 413, 429, 503, 504, 529 }

RECURSIVE Pow2(_)
Pow2(n) == IF n = 0 THEN 1 ELSE 2 * Pow2(n - 1)

\* n / d rounded to the nearest integer, ties to the even one: the rounding
\* of an IEEE 754 double operation, in units of the result's spacing
RoundHalfEven(n, d) ==
    LET q == n \div d
        r == n % d
    IN  IF 2 * r < d THEN q
        ELSE IF 2 * r > d THEN q + 1
        ELSE IF q % 2 = 0 THEN q ELSE q + 1

\* values of Math.random(): grid / RandomSteps for grid < RandomSteps, and the
\* doubles just below 1, which are 1 - ulpsBelowOne * 2^-53
Randoms ==
    { [grid |-> n, ulpsBelowOne |-> 0] : n \in 0..(RandomSteps - 1) }
    \cup { [grid |-> RandomSteps, ulpsBelowOne |-> m] : m \in 1..2 }

\* a number of milliseconds: ms - ulps * 2^(attempt - 44)
Milliseconds(ms, ulps) == [ms |-> ms, ulps |-> ulps]

\* the delay with the jitter drawn from the whole of exponentialDelay
calculateBackoffDelayFullJitter(attempt, random) ==
    LET exponentialDelay == 200 * Pow2(attempt)
    IN  Milliseconds(exponentialDelay + (random.grid * exponentialDelay) \div RandomSteps, 0)

\* 200 * 2^attempt + Math.random() * (exponentialDelay / 2) in double
\* arithmetic. On the grid every intermediate value is a whole number of
\* milliseconds. Just below 1 the product lies 100 * ulpsBelowOne / 128
\* spacings below exponentialDelay / 2 = 100 * 2^attempt (the doubles of
\* [64 * 2^attempt, 128 * 2^attempt) are 2^(attempt - 46) apart) and is rounded
\* to a double; the sum lies a quarter of that many spacings below
\* 300 * 2^attempt (the doubles of [256 * 2^attempt, 512 * 2^attempt) are
\* 2^(attempt - 44) apart) and is rounded again.
calculateBackoffDelay(attempt, random) ==
    LET exponentialDelay == 200 * Pow2(attempt)
        jitterMs == (random.grid * (exponentialDelay \div 2)) \div RandomSteps
        jitterUlps == RoundHalfEven(100 * random.ulpsBelowOne, 128)
    IN  Milliseconds(exponentialDelay + jitterMs, RoundHalfEven(jitterUlps, 4))

\* translateTexts up to `await fetch(url, ...)`: the Authorization header and
\* the endpoint of the request
Request(w) ==
    [apiKey |-> w.deeplTokenKey,
     url |-> IF w.isDeepLPro THEN "https://api.deepl.com/v2/translate"
             ELSE "https://api-free.deepl.com/v2/translate"]

\* the for loop of translateTextsWithErrorHandling at its condition
ForLoopHead(b) ==
    IF b.attempt < MAX_RETRIES
    THEN [b EXCEPT !.pc = "fetch", !.request = Request(worker)]
    ELSE [b EXCEPT !.pc = "done",
                   !.result = FailResult(<< "Translation failed after 3 retry attempts." >>)]

\* the loop body giving up one attempt early
translateTextsWithErrorHandlingEarly(b, fetched, random) ==
    LET r == translateTexts(fetched)
        tried == [b EXCEPT !.attempts = Append(@, [kind |-> fetched.kind, status |-> fetched.status])]
    IN  IF r.isSucceeded
        THEN [tried EXCEPT !.pc = "done", !.result = OkResult(r.arr)]
        ELSE IF r.isDeepLTranslationError
        THEN IF IsRetryableStatus(r.status) /\ b.attempt < MAX_RETRIES - 2
             THEN [tried EXCEPT !.pc = "sleep",
                                !.sleeps = Append(@, calculateBackoffDelay(b.attempt, random))]
             ELSE [tried EXCEPT !.pc = "done",
                                !.result = FailResult(getErrorMessageFromStatus(r.status))]
        ELSE [tried EXCEPT !.pc = "done", !.result = FailResult(r.msg)]

\* the body of the for loop once translateTexts has returned
translateTextsWithErrorHandling(b, fetched, random) ==
    LET r == translateTexts(fetched)
        tried == [b EXCEPT !.attempts = Append(@, [kind |-> fetched.kind, status |-> fetched.status])]
    IN  IF r.isSucceeded
        THEN [tried EXCEPT !.pc = "done", !.result = OkResult(r.arr)]
        ELSE IF r.isDeepLTranslationError
        THEN IF IsRetryableStatus(r.status)
             THEN IF b.attempt < MAX_RETRIES - 1
                  THEN [tried EXCEPT !.pc = "sleep",
                                     !.sleeps = Append(@, calculateBackoffDelay(b.attempt, random))]
                  ELSE [tried EXCEPT !.pc = "done",
                                     !.result = FailResult(getErrorMessageFromStatus(r.status))]
             ELSE [tried EXCEPT !.pc = "done",
                                !.result = FailResult(getErrorMessageFromStatus(r.status))]
        ELSE [tried EXCEPT !.pc = "done", !.result = FailResult(r.msg)]

\* chrome.runtime.onMessage listener, action 'fetchTranslation'
OnFetchTranslationMessage(rawSubtitleFinnishTexts) ==
    /\ bg.pc = "idle"
    /\ bg' = ForLoopHead([IdleBg EXCEPT !.texts = rawSubtitleFinnishTexts])
    /\ UNCHANGED contentVars

\* await translateTexts(...) resumes
TranslateTextsReturns(fetched, random) ==
    /\ bg.pc = "fetch"
    /\ bg' = translateTextsWithErrorHandling(bg, fetched, random)
    /\ UNCHANGED contentVars

\* await sleep(backoffDelay) resumes; continue
SleepDone ==
    /\ bg.pc = "sleep"
    /\ bg' = ForLoopHead([bg EXCEPT !.attempt = @ + 1])
    /\ UNCHANGED contentVars

\* sendResponse(translationResult)
SendResponse ==
    /\ bg.pc = "done"
    /\ bg' = IdleBg
    /\ UNCHANGED contentVars

NextRetry ==
    \/ \E texts \in RequestBatches : OnFetchTranslationMessage(texts)
    \/ \E fetched \in FetchOutcomes(Len(bg.texts)) : \E random \in Randoms :
          TranslateTextsReturns(fetched, random)
    \/ SleepDone
    \/ SendResponse

SpecRetry == Init /\ [][NextRetry]_vars

----------------------------------------------------------------------------
(* database.js: the functions as a session calls them (SpecStore) *)

\* metadata {A: today - 40, B: today - 10}
ExampleMetadata ==
    upsertMovieMetadata(upsertMovieMetadata(EmptyMap, "Movie A", NowDays - 40),
                        "Movie B", NowDays - 10)

storeFrame == << queue, isProcessing, dualSubEnabled, sharedTranslationMap,
                 sharedTranslationErrorMap, currentMovieName, globalDatabaseInstance,
                 targetLanguage, saveTransactions, drains, cuesSeen, ev, movieLoad,
                 bg, arrived, submitted, pageVars >>

\* the database as an earlier session (or none) left it
InitStore ==
    /\ queue = << >>
    /\ isProcessing = FALSE
    /\ dualSubEnabled = FALSE
    /\ sharedTranslationMap = EmptyMap
    /\ sharedTranslationErrorMap = EmptyMap
    /\ currentMovieName = NoMovie
    /\ globalDatabaseInstance = FALSE
    /\ targetLanguage = "EN-US"
    /\ saveTransactions = << >>
    /\ drains = << >>
    /\ cuesSeen = 0
    /\ ev = Event("init", << >>, << >>, NoResult)
    /\ movieLoad = IdleMovieLoad
    /\ bg = IdleBg
    /\ arrived = << >>
    /\ submitted = << >>
    /\ schema \in { NewDatabase, Version1Database, Version2Database }
    /\ movieMetadata \in (IF schema.version = 0 THEN { EmptyMap }
                          ELSE { EmptyMap, ExampleMetadata })
    /\ subtitleStore = EmptyMap
    /\ dbCall = NoDbCall
    /\ InitPages

\* const db = await openDatabase()
OpenDatabase ==
    LET r == openDatabase(schema)
    IN  /\ schema' = r.db
        /\ movieMetadata' = RecordsAfter(r.steps, MOVIE_METADATA_OBJECT_STORE, movieMetadata)
        /\ subtitleStore' = RecordsAfter(r.steps, SUBTITLE_CACHE_OBJECT_STORE, subtitleStore)
        /\ dbCall' = DbCall("openDatabase", << 2 >>,
                            [resolved |-> r.resolved, steps |-> r.steps])
        /\ UNCHANGED storeFrame

\* await saveSubtitlesBatch(db, subtitles)
SaveSubtitlesBatch(subtitles, fault) ==
    LET r == saveSubtitlesBatch(subtitleStore, subtitles, fault)
    IN  /\ schema.connected
        /\ subtitleStore' = r.store
        /\ dbCall' = DbCall("saveSubtitlesBatch", << subtitles, fault >>,
                            [promise |-> r.promise, savedCount |-> r.savedCount])
        /\ UNCHANGED << storeFrame, movieMetadata, schema >>

\* await saveSubtitle(db, movieName, targetLanguage, originalText, translatedText)
SaveSubtitle(movieName, language, translatedText) ==
    /\ schema.connected
    /\ subtitleStore' = saveSubtitle(subtitleStore, movieName, language, Hei, translatedText)
    /\ dbCall' = DbCall("saveSubtitle", << movieName, language, Hei, translatedText >>, 0)
    /\ UNCHANGED << storeFrame, movieMetadata, schema >>

\* await loadSubtitlesByMovieName(db, movieName, targetLanguage)
LoadSubtitlesByMovieName(movieName, language) ==
    /\ schema.connected
    /\ dbCall' = DbCall("loadSubtitlesByMovieName", << movieName, language >>,
                        loadSubtitlesByMovieName(subtitleStore, movieName, language))
    /\ UNCHANGED << storeFrame, subtitleStore, movieMetadata, schema >>

\* await clearSubtitlesByMovieName(db, movieName)
ClearSubtitlesByMovieName(movieName) ==
    LET r == clearSubtitlesByMovieName(subtitleStore, movieName)
    IN  /\ schema.connected
        /\ subtitleStore' = r.store
        /\ dbCall' = DbCall("clearSubtitlesByMovieName", << movieName >>, r.deletedCount)
        /\ UNCHANGED << storeFrame, movieMetadata, schema >>

\* await upsertMovieMetadata(db, movieName, lastAccessedDays)
UpsertMovieMetadata(movieName, lastAccessedDays) ==
    /\ schema.connected
    /\ movieMetadata' = upsertMovieMetadata(movieMetadata, movieName, lastAccessedDays)
    /\ dbCall' = DbCall("upsertMovieMetadata", << movieName, lastAccessedDays >>, 0)
    /\ UNCHANGED << storeFrame, subtitleStore, schema >>

\* await cleanupOldMovieData(db, maxAgeDays)
CleanupOldMovieData(maxAgeDays, faults) ==
    LET r == cleanupOldMovieData(subtitleStore, movieMetadata, maxAgeDays, faults)
    IN  /\ schema.connected
        /\ subtitleStore' = r.store
        /\ movieMetadata' = r.metadata
        /\ dbCall' = DbCall("cleanupOldMovieData", << maxAgeDays, faults >>,
                            [promise |-> r.promise, cleanedCount |-> r.cleanedCount,
                             steps |-> r.steps])
        /\ UNCHANGED << storeFrame, schema >>

NextStore ==
    \/ OpenDatabase
    \/ \E subtitles \in SaveBatches : \E fault \in Faults(Len(subtitles)) :
          SaveSubtitlesBatch(subtitles, fault)
    \/ \E m \in StoreMovies : \E l \in StoreLanguages : \E t \in StoreTranslations :
          SaveSubtitle(m, l, t)
    \/ \E m \in StoreMovies : \E l \in StoreLanguages : LoadSubtitlesByMovieName(m, l)
    \/ \E m \in StoreMovies : ClearSubtitlesByMovieName(m)
    \/ \E m \in StoreMovies : \E d \in AccessDays : UpsertMovieMetadata(m, d)
    \/ \E a \in MaxAges : \E faults \in SweepFaults(StoreMovies) : CleanupOldMovieData(a, faults)

SpecStore == InitStore /\ [][NextStore]_vars

----------------------------------------------------------------------------
(* Content script reopened on a movie translated earlier (SpecRewatch) *)

\* the subtitles of Movie A as an earlier session saved them: one record for
\* every cue text the listener queues
RewatchStore ==
    LET queued  == { t \in CueTexts : Len(toTranslationKey(t)) > 1
                                       /\ HasFinnishLetter(toTranslationKey(t)) }
        records == { SubtitleRecord("Movie A", "EN-US", toTranslationKey(t), << "x" >>) :
                        t \in queued }
    IN  [k \in { SubtitleKey(r) : r \in records } |->
            CHOOSE r \in records : SubtitleKey(r) = k]

\* a page load, 10 days after Movie A was watched last
InitRewatch ==
    /\ queue = << >>
    /\ isProcessing = FALSE
    /\ dualSubEnabled = FALSE
    /\ sharedTranslationMap = EmptyMap
    /\ sharedTranslationErrorMap = EmptyMap
    /\ currentMovieName = NoMovie
    /\ globalDatabaseInstance = FALSE
    /\ targetLanguage = "EN-US"
    /\ subtitleStore = RewatchStore
    /\ saveTransactions = << >>
    /\ drains = << >>
    /\ cuesSeen = 0
    /\ ev = Event("init", << >>, << >>, NoResult)
    /\ movieLoad = IdleMovieLoad
    /\ movieMetadata = upsertMovieMetadata(EmptyMap, "Movie A", NowDays - 10)
    /\ bg = IdleBg
    /\ arrived = << >>
    /\ submitted = << >>
    /\ schema = Version2Database
    /\ dbCall = NoDbCall
    /\ InitPages

SpecRewatch == InitRewatch /\ [][Next]_vars

----------------------------------------------------------------------------
(* TranslationQueue alone (SpecDrain): processQueue never looks inside a     *)
(* text, so a text is the number of its addToQueue call                      *)

MaxArrivals == 16

drainFrame == << sharedTranslationMap, sharedTranslationErrorMap, currentMovieName,
                 globalDatabaseInstance, targetLanguage, subtitleStore, saveTransactions,
                 cuesSeen, ev, movieLoad, movieMetadata, bg, schema, dbCall, pageVars >>

\* toProcessItems of a processQueue step p, empty when it submitted nothing
Submitted(p) == IF p.submitted THEN p.items ELSE << >>

\* the cue listener from translationQueue.addToQueue on
AddToQueueAndProcess ==
    LET rawSubtitleFinnishText == Len(arrived) + 1
        q == addToQueue(queue, rawSubtitleFinnishText)
        p == processQueue(q, isProcessing, dualSubEnabled)
    IN  /\ Len(arrived) < MaxArrivals
        /\ arrived' = Append(arrived, rawSubtitleFinnishText)
        /\ queue' = p.queue
        /\ isProcessing' = p.isProcessing
        /\ drains' = Suspended(drains, p)
        /\ submitted' = submitted \o Submitted(p)
        /\ UNCHANGED << dualSubEnabled, drainFrame >>

\* the dual-sub switch handler with the subtitles wrapper in place
SwitchChange ==
    LET checked == ~dualSubEnabled
        p == IF checked
             THEN processQueue(queue, isProcessing, checked)
             ELSE [queue |-> queue, isProcessing |-> isProcessing, submitted |-> FALSE,
                   items |-> << >>, before |-> queue]
    IN  /\ dualSubEnabled' = checked
        /\ queue' = p.queue
        /\ isProcessing' = p.isProcessing
        /\ drains' = Suspended(drains, p)
        /\ submitted' = submitted \o Submitted(p)
        /\ UNCHANGED << arrived, drainFrame >>

\* processQueue resumes after `await fetchTranslation(toProcessItems)`; what
\* the try block does with the result leaves the queue alone
BatchSettled(d) ==
    LET w == WhileLoop(queue, dualSubEnabled)
    IN  /\ queue' = w.queue
        /\ isProcessing' = w.isProcessing
        /\ drains' = Suspended(RemoveAt(drains, d), w)
        /\ submitted' = submitted \o Submitted(w)
        /\ UNCHANGED << dualSubEnabled, arrived, drainFrame >>

NextDrain ==
    \/ AddToQueueAndProcess
    \/ SwitchChange
    \/ \E d \in 1..Len(drains) : BatchSettled(d)

SpecDrain == Init /\ [][NextDrain]_vars

\* SpecDrain in which every fetchTranslation call returns: the service worker
\* answers each message after at most MAX_RETRIES attempts, and a lost
\* message channel rejects the promise
SpecLive == Init /\ [][NextDrain]_vars /\ WF_vars(\E d \in 1..Len(drains) : BatchSettled(d))

----------------------------------------------------------------------------
(* toTranslationKey on its own (SpecKey) *)

\* longest text toTranslationKey is given at the start
MaxTextLen == 3

KeyCharacters == { "a", "A", " ", "\n", "\t" }

KeyTexts == UNION { SeqsOfLen(KeyCharacters, n) : n \in 0..MaxTextLen }

\* const translationKey = toTranslationKey(rawSubtitleFinnishText), for a text
\* obtained by `edit` from the text of the call before, whose key was previousKey
ToTranslationKeyCall(rawSubtitleFinnishText, edit, previousKey) ==
    [rawSubtitleFinnishText |-> rawSubtitleFinnishText,
     translationKey |-> toTranslationKey(rawSubtitleFinnishText),
     edit |-> edit, previousKey |-> previousKey]

keyFrame == << queue, isProcessing, dualSubEnabled, sharedTranslationMap,
               sharedTranslationErrorMap, currentMovieName, globalDatabaseInstance,
               targetLanguage, subtitleStore, saveTransactions, drains, cuesSeen,
               ev, movieLoad, movieMetadata, bg, arrived, submitted, schema, dbCall,
               tokenInfos, tokenSubmits, displayed, startVars >>

InitKey ==
    /\ queue = << >>
    /\ isProcessing = FALSE
    /\ dualSubEnabled = FALSE
    /\ sharedTranslationMap = EmptyMap
    /\ sharedTranslationErrorMap = EmptyMap
    /\ currentMovieName = NoMovie
    /\ globalDatabaseInstance = FALSE
    /\ targetLanguage = "EN-US"
    /\ subtitleStore = EmptyMap
    /\ saveTransactions = << >>
    /\ drains = << >>
    /\ cuesSeen = 0
    /\ ev = Event("init", << >>, << >>, NoResult)
    /\ movieLoad = IdleMovieLoad
    /\ movieMetadata = EmptyMap
    /\ bg = IdleBg
    /\ arrived = << >>
    /\ submitted = << >>
    /\ schema = Version2Database
    /\ dbCall = NoDbCall
    /\ tokenInfos = << >>
    /\ tokenSubmits = << >>
    /\ displayed = NoDisplay
    /\ InitStart
    /\ \E text \in KeyTexts : keyCall = ToTranslationKeyCall(text, "none", << >>)

InsertAt(s, i, c) == SubSeq(s, 1, i) \o << c >> \o SubSeq(s, i + 1, Len(s))

SwapCase(c) == IF c = "a" THEN "A" ELSE IF c = "A" THEN "a" ELSE c

\* the next text has a space where this one has a newline, or the reverse
NewlineVersusSpace(i) ==
    LET text == keyCall.rawSubtitleFinnishText
    IN  /\ text[i] \in { " ", "\n" }
        /\ keyCall' = ToTranslationKeyCall(
                         [text EXCEPT ![i] = IF text[i] = "\n" THEN " " ELSE "\n"],
                         "newline versus space", keyCall.translationKey)
        /\ UNCHANGED keyFrame

\* the next text has one more whitespace character in a run of whitespace
WhitespaceRun(i, c) ==
    LET text == keyCall.rawSubtitleFinnishText
    IN  /\ Len(text) <= MaxTextLen
        /\ IsWhitespace(text[i])
        /\ keyCall' = ToTranslationKeyCall(InsertAt(text, i, c), "whitespace run",
                                             keyCall.translationKey)
        /\ UNCHANGED keyFrame

\* the next text has one more whitespace character at its start or its end
LeadingTrailingWhitespace(c, atEnd) ==
    LET text == keyCall.rawSubtitleFinnishText
    IN  /\ Len(text) <= MaxTextLen
        /\ keyCall' = ToTranslationKeyCall(IF atEnd THEN Append(text, c) ELSE << c >> \o text,
                                             "leading or trailing whitespace",
                                             keyCall.translationKey)
        /\ UNCHANGED keyFrame

\* the next text has one letter in the other case
LetterCase(i) ==
    LET text == keyCall.rawSubtitleFinnishText
    IN  /\ text[i] \in { "a", "A" }
        /\ keyCall' = ToTranslationKeyCall([text EXCEPT ![i] = SwapCase(text[i])],
                                             "letter case", keyCall.translationKey)
        /\ UNCHANGED keyFrame

\* the next text is the key of this one
KeyOfKey ==
    /\ keyCall' = ToTranslationKeyCall(keyCall.translationKey, "key", keyCall.translationKey)
    /\ UNCHANGED keyFrame

NextKey ==
    \/ \E i \in 1..Len(keyCall.rawSubtitleFinnishText) : NewlineVersusSpace(i)
    \/ \E i \in 1..Len(keyCall.rawSubtitleFinnishText) : \E c \in { " ", "\n", "\t" } :
          WhitespaceRun(i, c)
    \/ \E c \in { " ", "\n", "\t" } : \E atEnd \in BOOLEAN : LeadingTrailingWhitespace(c, atEnd)
    \/ \E i \in 1..Len(keyCall.rawSubtitleFinnishText) : LetterCase(i)
    \/ KeyOfKey

SpecKey == InitKey /\ [][NextKey]_vars

----------------------------------------------------------------------------
(* Options page: the token list of TokenManagementSection (SpecTokens) *)

\* what the user types into the key field: six keys and the empty field
TokenKeys == { "key-1", "key-2", "key-3", "key-4", "key-5", "key-6" }

NoTokenKey == ""

\* the radio group: a type or nothing selected
TokenTypes == { "free" }

NoTokenType == "null"

\* what queryTokenUsageInfo can resolve with: a usage, or a DeepLUsageError
\* with the status of the answer
UsageResponses ==
    { [isSucceeded |-> TRUE, status |-> 200, characterCount |-> 0, characterLimit |-> 500000],
      [isSucceeded |-> TRUE, status |-> 200, characterCount |-> 400000,
       characterLimit |-> 500000],
      [isSucceeded |-> FALSE, status |-> 403, characterCount |-> 0, characterLimit |-> 0],
      [isSucceeded |-> FALSE, status |-> 456, characterCount |-> 0, characterLimit |-> 0] }

\* the answers for a token nothing was translated with yet
FreshUsageResponses == { response \in UsageResponses : response.characterCount = 0 }

\* handleSubmit and handleCheckUsage calls in flight at one time
MaxSubmits == 1

validateDeeplApiTokenKey(tokenKey) == tokenKey # NoTokenKey

\* tokenInfos.map((tokenInfo) => tokenInfo.key) as a set
tokenKeysSet(infos) == { infos[i].key : i \in 1..Len(infos) }

tokenFrame == << queue, isProcessing, dualSubEnabled, sharedTranslationMap,
                 sharedTranslationErrorMap, currentMovieName, globalDatabaseInstance,
                 targetLanguage, subtitleStore, saveTransactions, drains, cuesSeen,
                 ev, movieLoad, movieMetadata, bg, arrived, submitted, schema, dbCall,
                 keyCall, displayed, startVars >>

\* AddNewTokenForm.handleSubmit up to `await queryTokenUsageInfo(...)`; the
\* three checks before it alert and return
HandleSubmit(deepLApiTokenKey, deepLApiTokenType) ==
    /\ Len(tokenSubmits) < MaxSubmits
    /\ validateDeeplApiTokenKey(deepLApiTokenKey)
    /\ deepLApiTokenType # NoTokenType
    /\ deepLApiTokenKey \notin tokenKeysSet(tokenInfos)
    /\ tokenSubmits' = Append(tokenSubmits,
                              [call |-> "handleSubmit",
                               key |-> deepLApiTokenKey, type |-> deepLApiTokenType,
                               tokenInfos |-> tokenInfos, shared |-> TRUE])
    /\ UNCHANGED << tokenInfos, tokenFrame >>

\* handleSubmit from the point where queryTokenUsageInfo has resolved:
\* tokenInfos is the list of the render the form was submitted in
HandleSubmitResumes(s, response) ==
    LET submit == tokenSubmits[s]
        deeplTokenInfoInStorage ==
            [key |-> submit.key, type |-> submit.type,
             characterCount |-> response.characterCount,
             characterLimit |-> response.characterLimit,
             selected |-> Len(submit.tokenInfos) = 0,
             isDeactivated |-> FALSE]
    IN  /\ submit.call = "handleSubmit"
        /\ tokenSubmits' = RemoveAt(tokenSubmits, s)
        /\ tokenInfos' = IF response.isSucceeded
                         THEN Append(submit.tokenInfos, deeplTokenInfoInStorage)
                         ELSE tokenInfos
        /\ UNCHANGED tokenFrame

\* newTokenInfos.reduce(...): the first token with the most characters left
RECURSIVE Reduce(_, _, _)
Reduce(infos, i, best) ==
    IF i > Len(infos) THEN best
    ELSE Reduce(infos, i + 1,
                IF infos[i].characterLimit - infos[i].characterCount
                      > infos[best].characterLimit - infos[best].characterCount
                THEN i ELSE best)

\* tokenInfos.filter((tokenInfo) => tokenInfo.key !== tokenKey)
RECURSIVE Filter(_, _)
Filter(infos, tokenKey) ==
    IF infos = << >> THEN << >>
    ELSE IF Head(infos).key = tokenKey THEN Filter(Tail(infos), tokenKey)
    ELSE << Head(infos) >> \o Filter(Tail(infos), tokenKey)

\* tokenInfo.selected = true on the object with this key in one list
MarkSelected(infos, tokenKey) ==
    [i \in 1..Len(infos) |->
        IF infos[i].key = tokenKey THEN [infos[i] EXCEPT !.selected = TRUE] ELSE infos[i]]

\* TokenInfoCardList.handleRemoveToken. filter() keeps the token objects, so
\* `tokenWithMostUsageRemaining.selected = true` also changes the object in the
\* list of a suspended call that still holds it
HandleRemoveToken(tokenKey) ==
    LET wasSelected == \E i \in 1..Len(tokenInfos) :
                          tokenInfos[i].key = tokenKey /\ tokenInfos[i].selected
        newTokenInfos == Filter(tokenInfos, tokenKey)
        marks == wasSelected /\ Len(newTokenInfos) > 0
        tokenWithMostUsageRemaining ==
            IF marks THEN newTokenInfos[Reduce(newTokenInfos, 2, 1)].key ELSE NoTokenKey
    IN  /\ tokenKey \in tokenKeysSet(tokenInfos)
        /\ tokenInfos' = IF marks
                         THEN MarkSelected(newTokenInfos, tokenWithMostUsageRemaining)
                         ELSE newTokenInfos
        /\ tokenSubmits' =
              [s \in 1..Len(tokenSubmits) |->
                  IF marks /\ tokenSubmits[s].shared
                  THEN [tokenSubmits[s] EXCEPT
                           !.tokenInfos = MarkSelected(@, tokenWithMostUsageRemaining)]
                  ELSE tokenSubmits[s]]
        /\ UNCHANGED tokenFrame

NextTokens ==
    \/ \E k \in TokenKeys \cup { NoTokenKey } : \E t \in TokenTypes \cup { NoTokenType } :
          HandleSubmit(k, t)
    \/ \E s \in 1..Len(tokenSubmits) : \E response \in FreshUsageResponses :
          HandleSubmitResumes(s, response)
    \/ \E k \in TokenKeys : HandleRemoveToken(k)

SpecTokens == Init /\ [][NextTokens]_vars

----------------------------------------------------------------------------
(* Options page with the token cards (SpecCards) *)

\* the keys typed into the form
CardKeys == { "key-1", "key-2", "key-3" }

\* tokenInfo.isDeactivated === true picks the DeactivatedTokenInfoCard, which
\* has a Remove button only
HasTokenInfoCard(tokenKey) ==
    \E i \in 1..Len(tokenInfos) :
        tokenInfos[i].key = tokenKey /\ ~tokenInfos[i].isDeactivated

\* TokenInfoCardList.handleSelectToken: structuredClone makes new token
\* objects, a suspended call keeps the old ones
HandleSelectToken(tokenKey) ==
    /\ HasTokenInfoCard(tokenKey)
    /\ tokenInfos' = [i \in 1..Len(tokenInfos) |->
                         [tokenInfos[i] EXCEPT !.selected = tokenInfos[i].key = tokenKey]]
    /\ tokenSubmits' = [s \in 1..Len(tokenSubmits) |->
                           [tokenSubmits[s] EXCEPT !.shared = FALSE]]
    /\ UNCHANGED tokenFrame

\* TokenInfoCardList.handleCheckUsage up to `await queryTokenUsageInfo(...)`
HandleCheckUsage(tokenKey) ==
    /\ Len(tokenSubmits) < MaxSubmits
    /\ HasTokenInfoCard(tokenKey)
    /\ \E i \in 1..Len(tokenInfos) :
          /\ tokenInfos[i].key = tokenKey
          /\ tokenSubmits' = Append(tokenSubmits,
                                    [call |-> "handleCheckUsage",
                                     key |-> tokenKey, type |-> tokenInfos[i].type,
                                     tokenInfos |-> tokenInfos, shared |-> TRUE])
    /\ UNCHANGED << tokenInfos, tokenFrame >>

\* handleCheckUsage from the point where queryTokenUsageInfo has resolved:
\* the token object of the render the button was clicked in is changed, and a
\* clone of that render's list becomes the list
HandleCheckUsageResumes(s, response) ==
    LET check == tokenSubmits[s]
        newTokenInfos ==
            [i \in 1..Len(check.tokenInfos) |->
                IF check.tokenInfos[i].key # check.key THEN check.tokenInfos[i]
                ELSE IF response.isSucceeded
                THEN [check.tokenInfos[i] EXCEPT
                         !.characterCount = response.characterCount,
                         !.characterLimit = response.characterLimit]
                ELSE [check.tokenInfos[i] EXCEPT
                         !.isDeactivated = TRUE, !.selected = FALSE]]
    IN  /\ check.call = "handleCheckUsage"
        /\ tokenSubmits' = RemoveAt(tokenSubmits, s)
        /\ tokenInfos' = IF response.isSucceeded \/ response.status = 403
                         THEN newTokenInfos
                         ELSE tokenInfos
        /\ UNCHANGED tokenFrame

NextCards ==
    \/ \E k \in CardKeys : \E t \in TokenTypes : HandleSubmit(k, t)
    \/ \E s \in 1..Len(tokenSubmits) : \E response \in UsageResponses :
          HandleSubmitResumes(s, response)
    \/ \E k \in CardKeys : HandleSelectToken(k)
    \/ \E k \in CardKeys : HandleCheckUsage(k)
    \/ \E s \in 1..Len(tokenSubmits) : \E response \in UsageResponses :
          HandleCheckUsageResumes(s, response)
    \/ \E k \in CardKeys : HandleRemoveToken(k)

SpecCards == Init /\ [][NextCards]_vars

----------------------------------------------------------------------------
(* Content script with failing cache writes (SpecSave) *)

\* cue texts: "Ab" is translated, "1\n2" has the key "1 2" without a letter
SaveCueTexts == { << "A", "b" >>, << "1", "\n", "2" >> }

\* the oldest saveSubtitlesBatch transaction fails: the promise rejects and
\* the .catch callback logs (put-throws, request-error), or the transaction
\* aborts at commit and the promise stays pending (abort)
SaveSubtitlesBatchFails(fault) ==
    LET r == saveSubtitlesBatch(subtitleStore, Head(saveTransactions), fault)
    IN  /\ saveTransactions # << >>
        /\ fault.kind # "none"
        /\ subtitleStore' = r.store
        /\ saveTransactions' = Tail(saveTransactions)
        /\ movieLoad' = IF movieLoad.after > 0
                        THEN [movieLoad EXCEPT !.after = @ - 1]
                        ELSE movieLoad
        /\ ev' = Event(IF r.promise = "rejected" THEN "save-rejected" ELSE "save-aborted",
                       << >>, << >>, NoResult)
        /\ UNCHANGED << queue, isProcessing, dualSubEnabled, sharedTranslationMap,
                        sharedTranslationErrorMap, currentMovieName, globalDatabaseInstance,
                        targetLanguage, drains, cuesSeen, movieMetadata, bg, otherVars >>

NextSave ==
    \/ \E t \in SaveCueTexts : SendTranslationTextEvent(t)
    \/ \E present \in BOOLEAN : DualSubSwitchChange(present)
    \/ \E d \in 1..Len(drains) : \E o \in Outcomes(Len(drains[d].items)) : FetchTranslationSettled(d, o)
    \/ OpenDatabaseDone
    \/ SaveSubtitlesBatchComplete
    \/ \E fault \in Faults(IF saveTransactions = << >> THEN 0 ELSE Len(Head(saveTransactions))) :
          SaveSubtitlesBatchFails(fault)
    \/ \E title \in MovieNames \cup {NoMovie} : GetVideoTitleDone(title)
    \/ LoadSubtitlesDone

SpecSave == Init /\ [][NextSave]_vars

----------------------------------------------------------------------------
(* Content script rendering the subtitles (SpecShow) *)

\* what the translation service returns for a text: a word, or a blank
ShowTranslations == { << "x" >>, << " " >> }

ShowOutcomes(n) ==
    { OkResult(a) : a \in SeqsOfLen(ShowTranslations, n) }
    \cup { FailResult(m) : m \in ReplyMessages }

\* the text of the spans of the subtitles wrapper; empty when none was added
SpanTexts == { << >>, << "A", "b" >>, << "c", "\n", "d" >> }

\* map.get(key): undefined or a string
MapGet(map, key) ==
    [defined |-> key \in DOMAIN map, value |-> IF key \in DOMAIN map THEN map[key] ELSE << >>]

StringValue(s) == [defined |-> TRUE, value |-> s]

\* undefined and "" are falsy
IsTruthy(x) == x.defined /\ x.value # << >>

\* x || y
LogicalOr(x, y) == IF IsTruthy(x) THEN x ELSE y

\* the text rendered under the Finnish text in addContentToDisplayedSubtitlesWrapper
targetLanguageTextOf(translationKey) ==
    LogicalOr(MapGet(sharedTranslationMap, translationKey),
              LogicalOr(MapGet(sharedTranslationErrorMap, translationKey),
                        StringValue(<< "Translating..." >>))).value

showFrame == << queue, isProcessing, dualSubEnabled, sharedTranslationMap,
                sharedTranslationErrorMap, currentMovieName, globalDatabaseInstance,
                targetLanguage, subtitleStore, saveTransactions, drains, cuesSeen,
                movieLoad, movieMetadata, bg, arrived, submitted, schema, dbCall,
                tokenInfos, tokenSubmits, keyCall, startVars >>

\* MutationObserver callback for a childList mutation of the subtitles
\* wrapper: handleSubtitlesWrapperMutation empties the displayed rows and
\* addContentToDisplayedSubtitlesWrapper fills them
HandleSubtitlesWrapperMutation(spansText) ==
    LET finnishText == Trim(CollapseWhitespace(ReplaceNewlines(spansText)))
        translationKey == toTranslationKey(finnishText)
    IN  /\ dualSubEnabled
        /\ displayed' = IF finnishText = << >>
                        THEN NoDisplay
                        ELSE [finnishText |-> finnishText,
                              targetLanguageText |-> targetLanguageTextOf(translationKey)]
        /\ ev' = Event("display", spansText, << >>, NoResult)
        /\ UNCHANGED showFrame

NextShow ==
    \/ \E t \in CueTexts : SendTranslationTextEvent(t)
    \/ \E present \in BOOLEAN : DualSubSwitchChange(present)
    \/ \E d \in 1..Len(drains) : \E o \in ShowOutcomes(Len(drains[d].items)) :
          FetchTranslationSettled(d, o)
    \/ \E spansText \in SpanTexts : HandleSubtitlesWrapperMutation(spansText)

SpecShow == Init /\ [][NextShow]_vars

----------------------------------------------------------------------------
(* Content script from its first statement on (SpecLanguage): the target     *)
(* language is still being read from chrome.storage.sync                     *)

InitLanguage ==
    /\ queue = << >>
    /\ isProcessing = FALSE
    /\ dualSubEnabled = FALSE
    /\ sharedTranslationMap = EmptyMap
    /\ sharedTranslationErrorMap = EmptyMap
    /\ currentMovieName = NoMovie
    /\ globalDatabaseInstance = FALSE
    /\ targetLanguage = "EN-US"
    /\ subtitleStore = EmptyMap
    /\ saveTransactions = << >>
    /\ drains = << >>
    /\ cuesSeen = 0
    /\ ev = Event("init", << >>, << >>, NoResult)
    /\ movieLoad = IdleMovieLoad
    /\ movieMetadata = EmptyMap
    /\ bg = IdleBg
    /\ arrived = << >>
    /\ submitted = << >>
    /\ schema = Version2Database
    /\ dbCall = NoDbCall
    /\ tokenInfos = << >>
    /\ tokenSubmits = << >>
    /\ keyCall = NoKeyCall
    /\ displayed = NoDisplay
    /\ languageLoad = "pending"
    /\ sweep = IdleSweep
    /\ storage = << >>
    /\ worker = [deeplTokenKey |-> "", isDeepLPro |-> FALSE, load |-> "done"]

\* loadTargetLanguageFromChromeStorageSync().then((loadedTargetLanguage) => {
\*   targetLanguage = loadedTargetLanguage; })
LoadTargetLanguageDone(loadedTargetLanguage) ==
    /\ languageLoad = "pending"
    /\ languageLoad' = "done"
    /\ targetLanguage' = loadedTargetLanguage
    /\ ev' = Event("language", << >>, << >>, NoResult)
    /\ UNCHANGED << queue, isProcessing, dualSubEnabled, sharedTranslationMap,
                    sharedTranslationErrorMap, currentMovieName, globalDatabaseInstance,
                    subtitleStore, saveTransactions, drains, cuesSeen, movieLoad,
                    movieMetadata, bg, arrived, submitted, schema, dbCall,
                    tokenInfos, tokenSubmits, keyCall, displayed, sweep,
                    storage, worker >>

NextLanguage ==
    \/ \E loadedTargetLanguage \in StoreLanguages : LoadTargetLanguageDone(loadedTargetLanguage)
    \/ \E t \in SaveCueTexts : SendTranslationTextEvent(t)
    \/ \E present \in BOOLEAN : DualSubSwitchChange(present)
    \/ \E d \in 1..Len(drains) : \E o \in Outcomes(Len(drains[d].items)) : FetchTranslationSettled(d, o)
    \/ OpenDatabaseDone
    \/ SaveSubtitlesBatchComplete
    \/ \E title \in MovieNames \cup {NoMovie} : GetVideoTitleDone(title)
    \/ LoadSubtitlesDone

SpecLanguage == InitLanguage /\ [][NextLanguage]_vars

----------------------------------------------------------------------------
(* Content script over two videos (SpecMovies): `arrived` holds every text   *)
(* handed to addToQueue with the currentMovieName of that moment             *)

\* the cue listener; the text it queues is noted with the movie that is open
SendTranslationTextEventDuringMovie(rawSubtitleFinnishText) ==
    /\ cuesSeen < MaxCues
    /\ cuesSeen' = cuesSeen + 1
    /\ ev' = Event("cue", rawSubtitleFinnishText, << >>, NoResult)
    /\ LET translationKey == toTranslationKey(rawSubtitleFinnishText)
       IN  IF IsAlreadyTranslated(sharedTranslationMap, rawSubtitleFinnishText)
           THEN UNCHANGED << queue, isProcessing, drains, sharedTranslationMap, arrived >>
           ELSE IF Len(translationKey) <= 1 \/ ~HasFinnishLetter(translationKey)
           THEN /\ sharedTranslationMap' = MapSet(sharedTranslationMap, translationKey, translationKey)
                /\ UNCHANGED << queue, isProcessing, drains, arrived >>
           ELSE LET q == addToQueue(queue, rawSubtitleFinnishText)
                    p == processQueue(q, isProcessing, dualSubEnabled)
                IN  /\ queue' = p.queue
                    /\ isProcessing' = p.isProcessing
                    /\ drains' = Suspended(drains, p)
                    /\ arrived' = Append(arrived, [text |-> rawSubtitleFinnishText,
                                                   movieName |-> currentMovieName])
                    /\ UNCHANGED sharedTranslationMap
    /\ UNCHANGED << dualSubEnabled, sharedTranslationErrorMap, currentMovieName,
                    globalDatabaseInstance, targetLanguage, subtitleStore,
                    saveTransactions, movieLoad, movieMetadata, bg,
                    submitted, schema, dbCall, pageVars >>

NextMovies ==
    \/ \E t \in SaveCueTexts : SendTranslationTextEventDuringMovie(t)
    \/ \E present \in BOOLEAN : DualSubSwitchChange(present)
    \/ \E d \in 1..Len(drains) : \E o \in Outcomes(Len(drains[d].items)) : FetchTranslationSettled(d, o)
    \/ OpenDatabaseDone
    \/ SaveSubtitlesBatchComplete
    \/ \E title \in StoreMovies \cup {NoMovie} : GetVideoTitleDone(title)
    \/ LoadSubtitlesDone

SpecMovies == Init /\ [][NextMovies]_vars

----------------------------------------------------------------------------
(* Content script opened on a store with an old movie (SpecSweep): the       *)
(* startup sweep runs step by step beside the handlers of the page           *)

\* maxAgeDays = 30, the default the content script calls cleanupOldMovieData with
DefaultMaxAgeDays == 30

\* Movie A was watched 40 days ago and has one unit; Movie B 10 days ago
InitSweep ==
    /\ queue = << >>
    /\ isProcessing = FALSE
    /\ dualSubEnabled = FALSE
    /\ sharedTranslationMap = EmptyMap
    /\ sharedTranslationErrorMap = EmptyMap
    /\ currentMovieName = NoMovie
    /\ globalDatabaseInstance = FALSE
    /\ targetLanguage = "EN-US"
    /\ subtitleStore = PutAll(EmptyMap, << Unit("Movie A", "EN-US", << "h", "i" >>) >>)
    /\ saveTransactions = << >>
    /\ drains = << >>
    /\ cuesSeen = 0
    /\ ev = Event("init", << >>, << >>, NoResult)
    /\ movieLoad = IdleMovieLoad
    /\ movieMetadata = ExampleMetadata
    /\ bg = IdleBg
    /\ arrived = << >>
    /\ submitted = << >>
    /\ schema = Version2Database
    /\ dbCall = NoDbCall
    /\ InitPages

sweepFrame == << queue, isProcessing, dualSubEnabled, sharedTranslationMap,
                 sharedTranslationErrorMap, currentMovieName, targetLanguage,
                 saveTransactions, drains, cuesSeen, movieLoad, bg, arrived, submitted,
                 schema, dbCall, tokenInfos, tokenSubmits, keyCall, displayed,
                 languageLoad, storage, worker >>

\* the records of getAll() in key order
RECURSIVE InKeyOrder(_)
InKeyOrder(old) ==
    IF old = {} THEN << >>
    ELSE << FirstByKey(old) >> \o InKeyOrder(old \ { FirstByKey(old) })

\* openDatabase().then(db => { globalDatabaseInstance = db;
\* cleanupOldMovieData(db)... }) up to `await getAllMovieMetadata(db)`
OpenDatabaseDoneAndCleanup ==
    /\ ~globalDatabaseInstance
    /\ globalDatabaseInstance' = TRUE
    /\ sweep' = [pc |-> "getAll", old |-> << >>, cleanedCount |-> 0]
    /\ ev' = Event("db-open", << >>, << >>, NoResult)
    /\ UNCHANGED << subtitleStore, movieMetadata, sweepFrame >>

\* cleanupOldMovieData from the point where getAllMovieMetadata has resolved
\* to `await clearSubtitlesByMovieName` for the first old movie
GetAllMovieMetadataDone ==
    LET cutoffDays == NowDays - DefaultMaxAgeDays
        allMetadata == getAllMovieMetadata(movieMetadata)
        old == InKeyOrder(oldMovieMetadatas(allMetadata, cutoffDays))
    IN  /\ sweep.pc = "getAll"
        /\ sweep' = [pc |-> IF old = << >> THEN "done" ELSE "clear",
                     old |-> old, cleanedCount |-> 0]
        /\ ev' = Event("sweep-read", << >>, << >>, NoResult)
        /\ UNCHANGED << globalDatabaseInstance, subtitleStore, movieMetadata, sweepFrame >>

\* the cursor of clearSubtitlesByMovieName has run; its transaction comes
\* after the saveSubtitlesBatch transactions opened before it
ClearSubtitlesByMovieNameDone ==
    /\ sweep.pc = "clear"
    /\ saveTransactions = << >>
    /\ subtitleStore' = clearSubtitlesByMovieName(subtitleStore, Head(sweep.old).movieName).store
    /\ sweep' = [sweep EXCEPT !.pc = "delete"]
    /\ ev' = Event("sweep-cleared", << >>, << >>, NoResult)
    /\ UNCHANGED << globalDatabaseInstance, movieMetadata, sweepFrame >>

\* deleteMovieMetadata has resolved: cleanedCount++ and the next old movie
DeleteMovieMetadataDone ==
    /\ sweep.pc = "delete"
    /\ movieMetadata' = deleteMovieMetadata(movieMetadata, Head(sweep.old).movieName)
    /\ sweep' = [pc |-> IF Tail(sweep.old) = << >> THEN "done" ELSE "clear",
                 old |-> Tail(sweep.old), cleanedCount |-> sweep.cleanedCount + 1]
    /\ ev' = Event("sweep-deleted", << >>, << >>, NoResult)
    /\ UNCHANGED << globalDatabaseInstance, subtitleStore, sweepFrame >>

NextSweep ==
    \/ \E t \in SaveCueTexts : SendTranslationTextEvent(t)
    \/ \E present \in BOOLEAN : DualSubSwitchChange(present)
    \/ \E d \in 1..Len(drains) : \E o \in Outcomes(Len(drains[d].items)) : FetchTranslationSettled(d, o)
    \/ OpenDatabaseDoneAndCleanup
    \/ GetAllMovieMetadataDone
    \/ ClearSubtitlesByMovieNameDone
    \/ DeleteMovieMetadataDone
    \/ SaveSubtitlesBatchComplete
    \/ \E title \in MovieNames \cup {NoMovie} : GetVideoTitleDone(title)
    \/ LoadSubtitlesDone

SpecSweep == InitSweep /\ [][NextSweep]_vars

----------------------------------------------------------------------------
(* Service worker from its first statement on (SpecWorker): the selected     *)
(* token is still being read from chrome.storage.sync                        *)

StoredToken(key, type, selected) == [key |-> key, type |-> type, selected |-> selected]

\* values of tokenInfos in chrome.storage.sync: no token, one selected token,
\* the second of two selected, a token that is not selected
WorkerTokenLists ==
    { << >>,
      << StoredToken("key-1", "free", TRUE) >>,
      << StoredToken("key-1", "free", FALSE), StoredToken("key-2", "pro", TRUE) >>,
      << StoredToken("key-1", "free", FALSE) >> }

\* deeplTokenInfos.find(token => token.selected === true): the index of the
\* first selected token, 0 for undefined
RECURSIVE FindSelected(_, _)
FindSelected(deeplTokenInfos, i) ==
    IF i > Len(deeplTokenInfos) THEN 0
    ELSE IF deeplTokenInfos[i].selected THEN i
    ELSE FindSelected(deeplTokenInfos, i + 1)

\* a service worker starts on some value of the storage
InitWorker ==
    /\ queue = << >>
    /\ isProcessing = FALSE
    /\ dualSubEnabled = FALSE
    /\ sharedTranslationMap = EmptyMap
    /\ sharedTranslationErrorMap = EmptyMap
    /\ currentMovieName = NoMovie
    /\ globalDatabaseInstance = FALSE
    /\ targetLanguage = "EN-US"
    /\ subtitleStore = EmptyMap
    /\ saveTransactions = << >>
    /\ drains = << >>
    /\ cuesSeen = 0
    /\ ev = Event("init", << >>, << >>, NoResult)
    /\ movieLoad = IdleMovieLoad
    /\ movieMetadata = EmptyMap
    /\ bg = IdleBg
    /\ arrived = << >>
    /\ submitted = << >>
    /\ schema = Version2Database
    /\ dbCall = NoDbCall
    /\ tokenInfos = << >>
    /\ tokenSubmits = << >>
    /\ keyCall = NoKeyCall
    /\ displayed = NoDisplay
    /\ languageLoad = "done"
    /\ sweep = IdleSweep
    /\ storage \in WorkerTokenLists
    /\ worker = [deeplTokenKey |-> "", isDeepLPro |-> FALSE, load |-> "pending"]

workerFrame == << queue, isProcessing, dualSubEnabled, sharedTranslationMap,
                  sharedTranslationErrorMap, currentMovieName, globalDatabaseInstance,
                  targetLanguage, subtitleStore, saveTransactions, drains, cuesSeen,
                  ev, movieLoad, movieMetadata, bg, arrived, submitted, schema, dbCall,
                  tokenInfos, tokenSubmits, keyCall, displayed, languageLoad, sweep >>

\* loadSelectedTokenFromChromeStorageSync().then((tokenInfo) => { ... })
LoadSelectedTokenDone ==
    LET selected == FindSelected(storage, 1)
    IN  /\ worker.load = "pending"
        /\ worker' = IF selected # 0
                     THEN [deeplTokenKey |-> storage[selected].key,
                           isDeepLPro |-> storage[selected].type = "pro",
                           load |-> "done"]
                     ELSE [worker EXCEPT !.load = "done"]
        /\ UNCHANGED << storage, workerFrame >>

\* the options page writes tokenInfos; chrome.storage.onChanged listener of
\* the service worker
StorageOnChanged(newValue) ==
    LET selected == FindSelected(newValue, 1)
    IN  /\ newValue # storage
        /\ storage' = newValue
        /\ worker' = IF selected # 0
                     THEN [worker EXCEPT !.deeplTokenKey = newValue[selected].key,
                                         !.isDeepLPro = newValue[selected].type = "pro"]
                     ELSE worker
        /\ UNCHANGED workerFrame

\* Math.random() = 0 in every backoff
WorkerRandoms == { [grid |-> 0, ulpsBelowOne |-> 0] }

NextWorker ==
    \/ LoadSelectedTokenDone
    \/ \E newValue \in WorkerTokenLists : StorageOnChanged(newValue)
    \/ \E texts \in RequestBatches : OnFetchTranslationMessage(texts)
    \/ \E fetched \in FetchOutcomes(Len(bg.texts)) : \E random \in WorkerRandoms :
          TranslateTextsReturns(fetched, random)
    \/ SleepDone
    \/ SendResponse

SpecWorker == InitWorker /\ [][NextWorker]_vars

----------------------------------------------------------------------------
(* Properties of the translation queue (Spec) *)

KeysOf(items) == { toTranslationKey(items[i]) : i \in 1..Len(items) }

IsQueueable(key) == Len(key) > 1 /\ HasFinnishLetter(key)

\* C1: single-flight drain. At most one fetchTranslation call of the queue is
\* outstanding at any time, and a processQueue call made by the cue listener
\* or the switch handler while a drain is suspended submits nothing.
C1_SingleFlight ==
    [][ /\ Len(drains') <= 1
        /\ (drains # << >> /\ ev'.op \in {"cue", "switch-on"})
              => drains' = drains ]_vars

\* a cue arrived while a batch was in flight and stays pending behind it
C1_Witness ==
    /\ ev.op = "cue"
    /\ Len(drains) = 1
    /\ isProcessing
    /\ dualSubEnabled
    /\ queue # << >>
    /\ queue[Len(queue)] = ev.text
    /\ drains[1].items \o queue # drains[1].before

\* C2: batch splitting. Every call takes min(7, remaining) texts from the
\* front of the pending list (so that n pending texts are sent in ceil(n/7)
\* calls, 10 texts as 7 and then 3).
C2_BatchSplitting ==
    \A d \in 1..Len(drains) :
        drains[d].items = SubSeq(drains[d].before, 1, Min(7, Len(drains[d].before)))

\* C3 as stated: after a successful batch the cache maps the key of every
\* text to the translation returned at the same position.
C3_PositionalVerbatim ==
    (ev.op = "settled" /\ ev.outcome.kind = "ok" /\ Len(ev.outcome.arr) = Len(ev.items))
       => \A i \in 1..Len(ev.items) :
             /\ toTranslationKey(ev.items[i]) \in DOMAIN sharedTranslationMap
             /\ sharedTranslationMap[toTranslationKey(ev.items[i])] = ev.outcome.arr[i]

\* the last position of the batch whose text has the same key as position i
LastWithSameKey(items, i) ==
    CHOOSE j \in i..Len(items) :
        /\ toTranslationKey(items[j]) = toTranslationKey(items[i])
        /\ \A k \in (j + 1)..Len(items) : toTranslationKey(items[k]) # toTranslationKey(items[i])

\* the translation as the cache stores it: trimmed, newlines turned to spaces
StoredForm(translatedText) ==
    LET trimmed == SubSeq(translatedText,
                          CHOOSE a \in 1..(Len(translatedText) + 1) :
                              /\ \A k \in 1..(a - 1) : IsWhitespace(translatedText[k])
                              /\ (a <= Len(translatedText) => ~IsWhitespace(translatedText[a])),
                          CHOOSE b \in 0..Len(translatedText) :
                              /\ \A k \in (b + 1)..Len(translatedText) : IsWhitespace(translatedText[k])
                              /\ (b >= 1 => ~IsWhitespace(translatedText[b])))
    IN  [k \in 1..Len(trimmed) |-> IF trimmed[k] = "\n" THEN " " ELSE trimmed[k]]

\* C3 amended: after a successful batch of n texts answered with n
\* translations, the cache maps the key of every text to the trimmed,
\* newline-free form of the translation at the last position of the batch
\* whose text has that key.
C3_PositionalStored ==
    (ev.op = "settled" /\ ev.outcome.kind = "ok" /\ Len(ev.outcome.arr) = Len(ev.items))
       => \A i \in 1..Len(ev.items) :
             /\ toTranslationKey(ev.items[i]) \in DOMAIN sharedTranslationMap
             /\ sharedTranslationMap[toTranslationKey(ev.items[i])]
                   = StoredForm(ev.outcome.arr[LastWithSameKey(ev.items, i)])

\* a batch of two texts with different keys got two different translations,
\* one of them with surrounding whitespace and a newline
C3_Witness ==
    /\ ev.op = "settled"
    /\ ev.outcome.kind = "ok"
    /\ Len(ev.items) = 2
    /\ Len(ev.outcome.arr) = 2
    /\ toTranslationKey(ev.items[1]) # toTranslationKey(ev.items[2])
    /\ ev.outcome.arr[1] = << " ", "y", "\n", "z" >>
    /\ ev.outcome.arr[2] = << "x" >>

\* C4: no batch is silently dropped. Once a batch has been processed, the key
\* of every text of the batch is in the success cache or in the error cache.
C4_NoSilentDrop ==
    ev.op = "settled"
       => KeysOf(ev.items) \subseteq
             (DOMAIN sharedTranslationMap) \cup (DOMAIN sharedTranslationErrorMap)

\* C5: a cue whose key is in the error cache is not added to the pending list
\* (and hence not submitted) again.
C5_ErrorKeyNotRequeued ==
    [][ (ev'.op = "cue" /\ toTranslationKey(ev'.text) \in DOMAIN sharedTranslationErrorMap)
           => (queue' = queue /\ drains' = drains) ]_vars

\* C6: cache precedence. A cue whose key is in the success cache is rejected
\* by the listener: the pending list and the submitted batches stay as they are.
C6_CachePrecedence ==
    [][ (ev'.op = "cue" /\ toTranslationKey(ev'.text) \in DOMAIN sharedTranslationMap)
           => (queue' = queue /\ drains' = drains) ]_vars

\* a cue arrived whose key had been translated before, in a spelling that
\* differs from its key
C6_Witness ==
    /\ ev.op = "cue"
    /\ IsQueueable(toTranslationKey(ev.text))
    /\ toTranslationKey(ev.text) # ev.text
    /\ toTranslationKey(ev.text) \in DOMAIN sharedTranslationMap
    /\ queue = << >>
    /\ drains = << >>

\* C10: batch failure. When fetchTranslation returns [false, message] for a
\* batch, the key of every text of the batch is in the error cache with the
\* value "Error: " + message, and the success cache, the subtitle store and
\* the save transactions are left as they were.
C10_BatchFailure ==
    [][ (ev'.op = "settled" /\ ev'.outcome.kind \in {"fail", "reject"})
           => /\ \A i \in 1..Len(ev'.items) :
                    /\ toTranslationKey(ev'.items[i]) \in DOMAIN sharedTranslationErrorMap'
                    /\ sharedTranslationErrorMap'[toTranslationKey(ev'.items[i])]
                          = << "Error: " >> \o ev'.outcome.msg
              /\ sharedTranslationMap' = sharedTranslationMap
              /\ subtitleStore' = subtitleStore
              /\ saveTransactions' = saveTransactions ]_vars

\* a batch holding a text that differs from its key failed while the success
\* cache and the store held entries
C10_Witness ==
    /\ ev.op = "settled"
    /\ ev.outcome.kind = "fail"
    /\ \E i \in 1..Len(ev.items) : toTranslationKey(ev.items[i]) # ev.items[i]
    /\ KeysOf(ev.items) \subseteq DOMAIN sharedTranslationErrorMap
    /\ DOMAIN sharedTranslationMap # {}
    /\ DOMAIN subtitleStore # {}

----------------------------------------------------------------------------
(* Properties of the retry controller (SpecRetry) *)

IsHttpFailure(a, statuses) == a.kind = "http-error" /\ a.status \in statuses

\* a failure the controller must not retry: a status outside the retry list
\* or a failure without a status
IsTerminalFailure(a) ==
    \/ a.kind \in {"throw", "unparsable"}
    \/ a.kind = "http-error" /\ a.status \notin {413, 429, 503, 504, 529}

\* C7: retry bound. A call makes at most 3 attempts, and a finished call whose
\* attempts all failed with a status of {413, 429, 503, 504, 529} made exactly
\* MAX_RETRIES = 3 attempts and returned a failure tuple.
C7_RetryBound ==
    /\ MAX_RETRIES = 3
    /\ Len(bg.attempts) <= 3
    /\ (/\ bg.pc = "done"
        /\ \A i \in 1..Len(bg.attempts) :
              IsHttpFailure(bg.attempts[i], {413, 429, 503, 504, 529}))
          => (Len(bg.attempts) = 3 /\ bg.result.kind = "fail")

\* three attempts answered 429 and the call has returned
C7_Witness ==
    /\ bg.pc = "done"
    /\ Len(bg.attempts) = 3
    /\ \A i \in 1..3 : bg.attempts[i] = [kind |-> "http-error", status |-> 429]
    /\ bg.result = FailResult(<< "You're translating too quickly. Please wait a moment and try again." >>)

C9_TransientRetried ==
    \A i \in 1..Len(bg.attempts) :
        (i < 3 /\ IsHttpFailure(bg.attempts[i], {429, 529, 413, 500, 504}))
           => /\ Len(bg.sleeps) >= i
              /\ (i < Len(bg.attempts) \/ bg.pc \in {"sleep", "fetch"})

----------------------------------------------------------------------------
(* Pause, resume and rewatching (Spec, SpecRewatch) *)

IsPrefix(a, b) == Len(a) <= Len(b) /\ SubSeq(b, 1, Len(a)) = a

\* the step hands a batch to fetchTranslation
SubmitsBatch == drains' # << >> /\ (drains = << >> \/ ev'.op = "settled")

\* C11: pause and resume. No batch is submitted by a step that ends with
\* dualSubEnabled false, and while it is false the pending list only grows at
\* its end. A batch that settles while the flag is false is still applied: a
\* full answer puts the key of every text in the success cache, a failure puts
\* it in the error cache, and the pending list stays as it is. When the flag
\* is true again (the switch handler calling processQueue with no batch in
\* flight, or the suspended drain resuming) and texts are pending, a batch
\* that starts at the front of the pending list is submitted and the rest
\* stays pending in order.
C11_PauseResume ==
    [][ /\ SubmitsBatch => dualSubEnabled'
        /\ ~dualSubEnabled' => IsPrefix(queue, queue')
        /\ (ev'.op = "settled" /\ ~dualSubEnabled)
              => /\ queue' = queue
                 /\ drains' = << >>
                 /\ (ev'.outcome.kind = "ok" /\ Len(ev'.outcome.arr) = Len(ev'.items))
                       => \A i \in 1..Len(ev'.items) :
                             /\ toTranslationKey(ev'.items[i]) \in DOMAIN sharedTranslationMap'
                             /\ sharedTranslationMap'[toTranslationKey(ev'.items[i])]
                                   = StoredForm(ev'.outcome.arr[LastWithSameKey(ev'.items, i)])
                 /\ ev'.outcome.kind \in {"fail", "reject"}
                       => \A i \in 1..Len(ev'.items) :
                             /\ toTranslationKey(ev'.items[i]) \in DOMAIN sharedTranslationErrorMap'
                             /\ sharedTranslationErrorMap'[toTranslationKey(ev'.items[i])]
                                   = << "Error: " >> \o ev'.outcome.msg
        /\ (/\ queue # << >>
            /\ \/ ev'.op = "switch-on" /\ dualSubEnabled' /\ drains = << >>
               \/ ev'.op = "settled" /\ dualSubEnabled)
              => /\ Len(drains') = 1
                 /\ drains'[1].items # << >>
                 /\ drains'[1].items \o queue' = queue ]_vars

\* a batch settled with translations after the switch was turned off, and two
\* texts that arrived meanwhile are still pending
C11_Witness ==
    /\ ev.op = "settled"
    /\ ev.outcome.kind = "ok"
    /\ ~dualSubEnabled
    /\ ~isProcessing
    /\ drains = << >>
    /\ Len(queue) = 2
    /\ KeysOf(ev.items) \subseteq DOMAIN sharedTranslationMap

\* C12: rewatching uses zero API calls. With the subtitles of every cue of
\* Movie A in the store, no cue of Movie A is ever handed to fetchTranslation.
C12_RewatchZeroApiCalls ==
    \A d \in 1..Len(drains) : \A i \in 1..Len(drains[d].items) :
        toTranslationKey(drains[d].items[i]) \notin { k[4] : k \in DOMAIN RewatchStore }

----------------------------------------------------------------------------
(* Properties of the database functions (SpecStore) *)

\* the records an object store holds
Records(store) == { store[k] : k \in DOMAIN store }

\* the tuple a translation unit is stored under
UnitTuple(r) == << r.movieName, r.originalLanguage, r.targetLanguage, r.originalText >>

\* the stored units of movie W
UnitsOf(store, W) == { r \in Records(store) : r.movieName = W }

\* C13: eviction. With no IndexedDB request failing during the call,
\* cleanupOldMovieData(db, maxAgeDays) with cutoff = today -
\* maxAgeDays removes the metadata and the units of exactly the movies whose
\* lastAccessedDays < cutoff, leaves every other movie (lastAccessedDays ==
\* cutoff included) as it was, and returns the number of movies removed; with
\* metadata {A: today - 40, B: today - 10} and maxAgeDays = 30 it removes A
\* only and returns 1.
C13_EvictionCorrectness ==
    (dbCall.op = "cleanupOldMovieData" /\ dbCall.args[2] = NoSweepFaults(StoreMovies))
       => LET maxAgeDays == dbCall.args[1]
              cutoff     == NowDays - maxAgeDays
              before     == dbCall.before
              evicted    == { m \in DOMAIN before.movieMetadata :
                                 before.movieMetadata[m].lastAccessedDays < cutoff }
          IN  /\ DOMAIN movieMetadata = (DOMAIN before.movieMetadata) \ evicted
              /\ \A m \in DOMAIN movieMetadata : movieMetadata[m] = before.movieMetadata[m]
              /\ \A m \in evicted : UnitsOf(subtitleStore, m) = {}
              /\ \A r \in Records(before.subtitleStore) :
                    r.movieName \notin evicted => r \in Records(subtitleStore)
              /\ Records(subtitleStore) \subseteq Records(before.subtitleStore)
              /\ dbCall.result.cleanedCount = Cardinality(evicted)
              /\ (before.movieMetadata = ExampleMetadata /\ maxAgeDays = 30)
                    => /\ dbCall.result.cleanedCount = 1
                       /\ DOMAIN movieMetadata = { "Movie B" }

\* the sweep ran on {A: today - 40, B: today - 10} with units of both movies
\* stored: A is gone, B is left
C13_Witness ==
    /\ dbCall.op = "cleanupOldMovieData"
    /\ dbCall.args = << 30, NoSweepFaults(StoreMovies) >>
    /\ dbCall.before.movieMetadata = ExampleMetadata
    /\ UnitsOf(dbCall.before.subtitleStore, "Movie A") # {}
    /\ UnitsOf(dbCall.before.subtitleStore, "Movie B") # {}
    /\ UnitsOf(subtitleStore, "Movie A") = {}
    /\ UnitsOf(subtitleStore, "Movie B") # {}
    /\ dbCall.result.cleanedCount = 1

\* C14: save/load round trip. loadSubtitlesByMovieName(db, W, L) returns
\* exactly the stored units whose movieName is W, originalLanguage is FI and
\* targetLanguage is L; with the single unit (Movie A, EN-US, hei -> hi) in
\* the store it returns exactly that unit.
C14_SaveLoadRoundTrip ==
    dbCall.op = "loadSubtitlesByMovieName"
       => LET W == dbCall.args[1]
              L == dbCall.args[2]
          IN  /\ dbCall.result = { r \in Records(subtitleStore) :
                                      /\ r.movieName = W
                                      /\ r.originalLanguage = "FI"
                                      /\ r.targetLanguage = L }
              /\ (/\ Records(subtitleStore) = { Unit("Movie A", "EN-US", << "h", "i" >>) }
                  /\ W = "Movie A"
                  /\ L = "EN-US")
                    => dbCall.result = { Unit("Movie A", "EN-US", << "h", "i" >>) }

\* Movie A was loaded for EN-US from a store that also holds a unit of Movie A
\* in VI and a unit of Movie B
C14_Witness ==
    /\ dbCall.op = "loadSubtitlesByMovieName"
    /\ dbCall.args = << "Movie A", "EN-US" >>
    /\ Cardinality(dbCall.result) = 1
    /\ \E r \in Records(subtitleStore) : r.movieName = "Movie A" /\ r.targetLanguage = "VI"
    /\ UnitsOf(subtitleStore, "Movie B") # {}

\* the last position of a batch that writes the tuple of position i
LastWrite(subtitles, i) ==
    CHOOSE j \in i..Len(subtitles) :
        /\ UnitTuple(subtitles[j]) = UnitTuple(subtitles[i])
        /\ \A k \in (j + 1)..Len(subtitles) : UnitTuple(subtitles[k]) # UnitTuple(subtitles[i])

\* C15: idempotent upsert. The store holds at most one unit per (movieName,
\* originalLanguage, targetLanguage, originalText); after a save the unit of
\* every tuple written holds the translatedText of the latest write, and
\* saving the same batch again leaves the store as it is.
C15_IdempotentUpsert ==
    /\ \A r1, r2 \in Records(subtitleStore) : UnitTuple(r1) = UnitTuple(r2) => r1 = r2
    /\ (dbCall.op = "saveSubtitlesBatch" /\ dbCall.args[2].kind = "none")
          => LET subtitles == dbCall.args[1]
             IN  /\ \A i \in 1..Len(subtitles) :
                       { r \in Records(subtitleStore) : UnitTuple(r) = UnitTuple(subtitles[i]) }
                          = { subtitles[LastWrite(subtitles, i)] }
                 /\ saveSubtitlesBatch(subtitleStore, subtitles, NoFault).store = subtitleStore
    /\ dbCall.op = "saveSubtitle"
          => { r \in Records(subtitleStore) :
                  UnitTuple(r) = << dbCall.args[1], "FI", dbCall.args[2], dbCall.args[3] >> }
                = { SubtitleRecord(dbCall.args[1], dbCall.args[2], dbCall.args[3], dbCall.args[4]) }

\* a batch that writes one tuple twice was saved over an earlier translation
\* of that tuple
C15_Witness ==
    /\ dbCall.op = "saveSubtitlesBatch"
    /\ dbCall.args[2].kind = "none"
    /\ Len(dbCall.args[1]) = 2
    /\ UnitTuple(dbCall.args[1][1]) = UnitTuple(dbCall.args[1][2])
    /\ Unit("Movie A", "EN-US", << "h", "i" >>) \in Records(dbCall.before.subtitleStore)
    /\ Unit("Movie A", "EN-US", << "m", "o", "i" >>) \in Records(subtitleStore)
    /\ Cardinality(UnitsOf(subtitleStore, "Movie A")) = 1

\* C16: saveSubtitlesBatch failure semantics. A call without a failure
\* resolves with the number of units written; when the put of one unit fails,
\* every other unit of the call is in the store afterwards and the promise
\* has settled as rejected.
C16_BatchFailureSemantics ==
    dbCall.op = "saveSubtitlesBatch"
       => LET subtitles == dbCall.args[1]
              fault     == dbCall.args[2]
          IN  /\ fault.kind = "none"
                    => /\ dbCall.result.promise = "resolved"
                       /\ dbCall.result.savedCount = Len(subtitles)
              /\ fault.kind \in {"put-throws", "request-error"}
                    => /\ dbCall.result.promise = "rejected"
                       /\ \A i \in (1..Len(subtitles)) \ {fault.at} :
                             \E r \in Records(subtitleStore) :
                                UnitTuple(r) = UnitTuple(subtitles[i])

\* C17: clearSubtitlesByMovieName(db, W) deletes every unit of W in every
\* target language, returns the number of units deleted and leaves the units
\* of every other movie and the metadata as they were.
C17_ClearFrame ==
    dbCall.op = "clearSubtitlesByMovieName"
       => LET W      == dbCall.args[1]
              before == dbCall.before
          IN  /\ UnitsOf(subtitleStore, W) = {}
              /\ \A r \in Records(before.subtitleStore) :
                    r.movieName # W => r \in Records(subtitleStore)
              /\ Records(subtitleStore) \subseteq Records(before.subtitleStore)
              /\ dbCall.result = Cardinality(UnitsOf(before.subtitleStore, W))
              /\ movieMetadata = before.movieMetadata

\* Movie A was cleared while it had units in two target languages and Movie B
\* had a unit and metadata
C17_Witness ==
    /\ dbCall.op = "clearSubtitlesByMovieName"
    /\ dbCall.args = << "Movie A" >>
    /\ dbCall.result = 2
    /\ { r.targetLanguage : r \in UnitsOf(dbCall.before.subtitleStore, "Movie A") }
          = { "EN-US", "VI" }
    /\ UnitsOf(subtitleStore, "Movie B") # {}
    /\ "Movie A" \in DOMAIN movieMetadata

\* C18: schema migration. openDatabase on a database of version 0, 1 or 2
\* resolves with version 2, the metadata store, the subtitle store and its
\* index present and the deprecated store absent; no migration step runs
\* twice; from version 0 the steps are the two stores and the index, from
\* version 1 the subtitle store, the index and the removal of the deprecated
\* store, from version 2 none; the metadata records are the ones from before.
C18_SchemaMigration ==
    dbCall.op = "openDatabase"
       => LET old   == dbCall.before.schema
              steps == dbCall.result.steps
          IN  /\ dbCall.result.resolved
              /\ schema.connected
              /\ schema.version = 2
              /\ schema.objectStoreNames
                    = { MOVIE_METADATA_OBJECT_STORE, SUBTITLE_CACHE_OBJECT_STORE }
              /\ schema.indexNames
                    = { << SUBTITLE_CACHE_OBJECT_STORE, "movieSubtitlesByLanguage" >> }
              /\ \A i, j \in 1..Len(steps) : steps[i] = steps[j] => i = j
              /\ old.version = 0
                    => steps = << << "createObjectStore", MOVIE_METADATA_OBJECT_STORE >>,
                                  << "createObjectStore", SUBTITLE_CACHE_OBJECT_STORE >>,
                                  << "createIndex", "movieSubtitlesByLanguage" >> >>
              /\ old.version = 1
                    => steps = << << "createObjectStore", SUBTITLE_CACHE_OBJECT_STORE >>,
                                  << "createIndex", "movieSubtitlesByLanguage" >>,
                                  << "deleteObjectStore",
                                     DEPRECATED_ENGLISH_SUBTITLE_CACHE_OBJECT_STORE >> >>
              /\ old.version = 2
                    => /\ steps = << >>
                       /\ subtitleStore = dbCall.before.subtitleStore
              /\ movieMetadata = dbCall.before.movieMetadata

\* a version 1 database with two metadata records was opened
C18_Witness ==
    /\ dbCall.op = "openDatabase"
    /\ dbCall.before.schema = Version1Database
    /\ dbCall.before.movieMetadata = ExampleMetadata
    /\ movieMetadata = ExampleMetadata
    /\ schema.version = 2
    /\ Len(dbCall.result.steps) = 3

----------------------------------------------------------------------------
(* Properties of the batches (SpecDrain) *)

\* C19: batch size bound. Every batch handed to fetchTranslation holds at
\* least 1 and at most BATCH_MAXIMUM_SIZE = 7 texts.
C19_BatchSizeBound ==
    /\ BATCH_MAXIMUM_SIZE = 7
    /\ \A d \in 1..Len(drains) :
          /\ Len(drains[d].items) >= 1
          /\ Len(drains[d].items) <= 7

\* a batch of 7 texts was cut from a pending list of 16
C19_Witness ==
    /\ Len(drains) = 1
    /\ Len(drains[1].items) = 7
    /\ Len(drains[1].before) = 16

\* C20: FIFO. The texts submitted so far, in submission order, followed by
\* the pending list are the texts in the order addToQueue received them: the
\* batches form a prefix of the arrivals, nothing is skipped, reordered or
\* submitted twice.
C20_Fifo ==
    /\ IsPrefix(submitted, arrived)
    /\ submitted \o queue = arrived

\* several batches have gone out, one is in flight, the switch is off and
\* texts that arrived meanwhile are pending
C20_Witness ==
    /\ Len(drains) = 1
    /\ Len(submitted) > Len(drains[1].items)
    /\ ~dualSubEnabled
    /\ Len(queue) >= 2
    /\ Len(drains[1].items) >= 2

----------------------------------------------------------------------------
(* Properties of the cue listener and the caches *)

\* the occurrences of a key among the texts of the calls not yet answered
InFlightOccurrences(key) ==
    { << d, i >> \in (1..Len(drains)) \X (1..BATCH_MAXIMUM_SIZE) :
         /\ i <= Len(drains[d].items)
         /\ toTranslationKey(drains[d].items[i]) = key }

\* C21: at no time does a normalized key occur more than once among the texts
\* of the translation calls that are not yet answered, two occurrences inside
\* one batch included.
C21_AtMostOnceInFlight ==
    \A t \in CueTexts : Cardinality(InFlightOccurrences(toTranslationKey(t))) <= 1

----------------------------------------------------------------------------
(* Properties of toTranslationKey (SpecKey) *)

\* C22: toTranslationKey applied to a key returns that key, and a text that
\* differs from another only in a newline versus a space, in the length of a
\* run of whitespace, in leading or trailing whitespace or in the case of a
\* letter has the same key as the other.
C22_IdempotentNormalization ==
    /\ toTranslationKey(keyCall.translationKey) = keyCall.translationKey
    /\ keyCall.edit # "none" => keyCall.translationKey = keyCall.previousKey

\* "A\n a" was normalized after "A\na": upper case, a newline and a run of
\* whitespace
C22_Witness ==
    /\ keyCall.edit = "whitespace run"
    /\ keyCall.rawSubtitleFinnishText = << "A", "\n", " ", "a" >>
    /\ keyCall.translationKey = << "a", " ", "a" >>
    /\ keyCall.previousKey = << "a", " ", "a" >>

\* a batch whose translation call returned one translation per text
IsSuccessfulBatch(e) ==
    /\ e.op = "settled"
    /\ e.outcome.kind = "ok"
    /\ Len(e.outcome.arr) = Len(e.items)

\* C23: when a batch translation succeeds, saveSubtitlesBatch is called at once
\* with one unit per text of the batch: the current work item, FI, the current
\* target language, the normalized key and the cached value; whether or not
\* the database is open and the title is known.
C23_EveryBatchPersisted ==
    [][IsSuccessfulBatch(ev')
        => /\ Len(saveTransactions') = Len(saveTransactions) + 1
           /\ LET subtitles == saveTransactions'[Len(saveTransactions')]
              IN  /\ Len(subtitles) = Len(ev'.items)
                  /\ \A i \in 1..Len(subtitles) :
                        subtitles[i] =
                           SubtitleRecord(currentMovieName, targetLanguage,
                                          toTranslationKey(ev'.items[i]),
                                          sharedTranslationMap'[toTranslationKey(ev'.items[i])])
      ]_vars

----------------------------------------------------------------------------
(* Properties of the options page (SpecTokens) *)

\* C24: the token list never holds more than 5 tokens, and a submission made
\* while it holds 5 leaves it as it is.
C24_TokenLimit ==
    [][/\ Len(tokenInfos') <= 5
       /\ Len(tokenInfos) = 5 /\ Len(tokenSubmits') < Len(tokenSubmits)
             => tokenInfos' = tokenInfos]_vars

----------------------------------------------------------------------------
(* Properties of the backoff (SpecRetry) *)

\* a number of milliseconds compared with a whole number of milliseconds
IsBelow(delay, n) == delay.ms < n \/ (delay.ms = n /\ delay.ulps > 0)

\* a 3-attempt call sleeps twice, never after its last attempt, and every
\* delay is above the base 200 * 2^j of every earlier delay
SleepsBetweenAttempts ==
    /\ Len(bg.sleeps) <= MAX_RETRIES - 1
    /\ Len(bg.attempts) = MAX_RETRIES => Len(bg.sleeps) = MAX_RETRIES - 1 /\ bg.pc # "sleep"
    /\ Len(bg.sleeps) \in { Len(bg.attempts) - 1, Len(bg.attempts) } \/ bg.attempts = << >>
    /\ bg.pc = "sleep" => Len(bg.sleeps) = Len(bg.attempts)
    /\ \A k \in 1..Len(bg.sleeps) : \A j \in 1..(k - 1) :
          ~IsBelow(bg.sleeps[k], 200 * Pow2(j - 1) + 1)

\* C25 as stated: the delay before retry k lies in [200 * 2^k, 300 * 2^k), a
\* 3-attempt call sleeps exactly twice and never after the final attempt.
C25_BackoffHalfOpen ==
    /\ SleepsBetweenAttempts
    /\ \A k \in 1..Len(bg.sleeps) :
          /\ ~IsBelow(bg.sleeps[k], 200 * Pow2(k - 1))
          /\ IsBelow(bg.sleeps[k], 300 * Pow2(k - 1))

\* C25 amended: the delay before retry k lies in [200 * 2^k, 300 * 2^k], the
\* upper end included; a 3-attempt call sleeps exactly twice and never after
\* the final attempt.
C25_BackoffClosed ==
    /\ SleepsBetweenAttempts
    /\ \A k \in 1..Len(bg.sleeps) :
          /\ ~IsBelow(bg.sleeps[k], 200 * Pow2(k - 1))
          /\ ~IsBelow(Milliseconds(300 * Pow2(k - 1), 0), bg.sleeps[k].ms)

\* three attempts were made, with a first delay of exactly 300 ms and a second
\* delay of 400 ms
C25_Witness ==
    /\ Len(bg.attempts) = MAX_RETRIES
    /\ bg.sleeps = << Milliseconds(300, 0), Milliseconds(400, 0) >>

----------------------------------------------------------------------------
(* Properties of the sweep under failures (SpecStore) *)

\* the movies a sweep found stale
StaleMovies(call) ==
    { m \in DOMAIN call.before.movieMetadata :
         call.before.movieMetadata[m].lastAccessedDays < NowDays - call.args[1] }

\* a sweep that got its list of metadata records
IsSweep(call) == call.op = "cleanupOldMovieData" /\ ~call.args[2].getAll

\* the positions of the calls the sweep made for movie m
StepsOf(call, op, m) ==
    { i \in 1..Len(call.result.steps) :
         call.result.steps[i].op = op /\ call.result.steps[i].movieName = m }

\* units and metadata record of m are both gone
FullyEvicted(m) == m \notin DOMAIN movieMetadata /\ UnitsOf(subtitleStore, m) = {}

----------------------------------------------------------------------------
(* Properties of the caches under failing writes (SpecSave) *)

\* the step in which a saveSubtitlesBatch transaction failed or was aborted
IsSaveFailure(e) == e.op \in { "save-rejected", "save-aborted" }

\* C28: when saveSubtitlesBatch rejects or never settles, the success cache
\* and the error cache stay as they are, and processQueue, which does not wait
\* for the write, submits the next batch in the step that started the write.
C28_PersistenceFailureIsolated ==
    [][/\ (IsSaveFailure(ev') /\ saveTransactions' # saveTransactions)
             => /\ sharedTranslationMap' = sharedTranslationMap
                /\ sharedTranslationErrorMap' = sharedTranslationErrorMap
                /\ UNCHANGED << queue, drains, isProcessing >>
       /\ (IsSuccessfulBatch(ev') /\ Len(saveTransactions') > Len(saveTransactions))
             => /\ sharedTranslationErrorMap' = sharedTranslationErrorMap
                /\ KeysOf(ev'.items) \subseteq DOMAIN sharedTranslationMap'
                /\ (queue # << >> /\ dualSubEnabled)
                      => /\ Len(drains') = 1
                         /\ drains'[1].before = queue
                         /\ drains'[1].items # << >>
      ]_vars

\* the write of a translated batch was rejected while the next batch was in
\* flight: the translation is in the success cache and not in the store
C28_Witness ==
    /\ ev.op = "save-rejected"
    /\ << "a", "b" >> \in DOMAIN sharedTranslationMap
    /\ sharedTranslationErrorMap = EmptyMap
    /\ subtitleStore = EmptyMap
    /\ Len(drains) = 1

\* keys that occur where only queued texts get to
KeysInPipeline ==
    KeysOf(queue)
    \cup UNION { KeysOf(drains[d].items) : d \in 1..Len(drains) }
    \cup UNION { { saveTransactions[n][i].originalText : i \in 1..Len(saveTransactions[n]) } :
                    n \in 1..Len(saveTransactions) }
    \cup { r.originalText : r \in Records(subtitleStore) }

\* the cue handled last has a key of length <= 1 or without a letter
IsSelfTranslatedCue(e) == e.op = "cue" /\ ~IsQueueable(toTranslationKey(e.text))

\* C29 as stated: a cue whose key has length <= 1 or no letter of [a-z] is
\* never queued, sent or persisted, and its success cache entry is the text of
\* the cue, verbatim.
C29_SelfTranslationVerbatim ==
    /\ \A k \in KeysInPipeline : IsQueueable(k)
    /\ IsSelfTranslatedCue(ev)
          => /\ toTranslationKey(ev.text) \in DOMAIN sharedTranslationMap
             /\ sharedTranslationMap[toTranslationKey(ev.text)] = ev.text

\* C29 amended: such a cue is never queued, sent or persisted, and its success
\* cache entry is its normalized key.
C29_SelfTranslationKey ==
    /\ \A k \in KeysInPipeline : IsQueueable(k)
    /\ IsSelfTranslatedCue(ev)
          => /\ toTranslationKey(ev.text) \in DOMAIN sharedTranslationMap
             /\ sharedTranslationMap[toTranslationKey(ev.text)] = toTranslationKey(ev.text)

\* the cue "1\n2" was self-translated to "1 2" while a translated cue was
\* written to the store
C29_Witness ==
    /\ ev.op = "cue"
    /\ ev.text = << "1", "\n", "2" >>
    /\ << "1", " ", "2" >> \in DOMAIN sharedTranslationMap
    /\ sharedTranslationMap[<< "1", " ", "2" >>] = << "1", " ", "2" >>
    /\ subtitleStore # EmptyMap

----------------------------------------------------------------------------
(* Properties of the display (SpecShow) *)

\* C30: the text shown for a cue with key k is the success cache value of k
\* whenever k is in the success cache, the empty string included; otherwise
\* the error cache message of k if there is one; otherwise "Translating...".
C30_DisplayLookup ==
    [][(ev'.op = "display" /\ displayed' # NoDisplay)
          => LET k == toTranslationKey(displayed'.finnishText)
             IN  displayed'.targetLanguageText =
                    IF k \in DOMAIN sharedTranslationMap THEN sharedTranslationMap[k]
                    ELSE IF k \in DOMAIN sharedTranslationErrorMap
                    THEN sharedTranslationErrorMap[k]
                    ELSE << "Translating..." >>
      ]_vars

----------------------------------------------------------------------------
(* Properties of the status messages (SpecRetry) *)

\* the call ended on an HTTP error status and answered with a message
EndedOnStatus ==
    /\ bg.pc = "done"
    /\ bg.attempts # << >>
    /\ bg.attempts[Len(bg.attempts)].kind = "http-error"

LastStatus == bg.attempts[Len(bg.attempts)].status

\* the generic failure message, which contains the status code
GenericFailure(status) ==
    << "Translation failed (error ", ToString(status), "). Please try again later." >>

RateLimited == << "You're translating too quickly. Please wait a moment and try again." >>

\* the messages of the statuses the table names
NamedStatusMessage(status) ==
    CASE status = 400 -> << "Translation request is invalid. Please try again." >>
      [] status = 403 -> << "This API key is invalid. Please check your DeepL translation key in settings." >>
      [] status = 413 -> << "Subtitle text is too large. Please contact the extension developer." >>
      [] status = 414 -> << "Request URL is too long. Please contact the extension developer." >>
      [] status = 429 -> RateLimited
      [] status = 529 -> RateLimited
      [] status = 456 -> << "Monthly character limit reached. Please use a different translation key or upgrade your plan." >>
      [] status = 500 -> << "DeepL is having technical problems. Please try again in a few minutes." >>
      [] status = 504 -> << "DeepL is temporarily unavailable. Please try again in a few minutes." >>

NamedStatuses == { 400, 403, 413, 414, 429, 529, 456, 500, 504 }

\* C31 as stated: a call that ends on an HTTP error status answers with the
\* message of that status for 400, 403, 413, 414, 429, 529, 456, 500 and 504,
\* and with the generic failure message containing the status code for every
\* other status, 404 and 503 included.
C31_StatusTable ==
    EndedOnStatus =>
        /\ bg.result.kind = "fail"
        /\ bg.result.msg = IF LastStatus \in NamedStatuses
                           THEN NamedStatusMessage(LastStatus)
                           ELSE GenericFailure(LastStatus)

\* C31 amended: as C31, except that 404 has a message of its own ("Cannot
\* connect to DeepL. ...") that does not contain the status code; every status
\* other than 404 and the nine named ones, 503 included, gets the generic
\* failure message containing the status code.
C31_StatusTableWith404 ==
    EndedOnStatus =>
        /\ bg.result.kind = "fail"
        /\ bg.result.msg =
              IF LastStatus \in NamedStatuses THEN NamedStatusMessage(LastStatus)
              ELSE IF LastStatus = 404
              THEN << "Cannot connect to DeepL. Please contact the extension developer." >>
              ELSE GenericFailure(LastStatus)

\* a call that ended on 404
C31_Witness ==
    /\ EndedOnStatus
    /\ LastStatus = 404
    /\ bg.result.kind = "fail"

----------------------------------------------------------------------------
(* Properties of the two caches (Spec) *)

\* C32: no normalized key is in both the success cache and the error cache.
C32_CachesDisjoint ==
    (DOMAIN sharedTranslationMap) \cap (DOMAIN sharedTranslationErrorMap) = {}

----------------------------------------------------------------------------
(* Properties of the drain (Spec, SpecLive) *)

\* C33: between event handlers, a non-empty pending list with dualSubEnabled
\* true has a drain running (isProcessing is true), and isProcessing is true
\* only while a processQueue call is suspended at its await.
C33_NoStrandedWork ==
    /\ (queue # << >> /\ dualSubEnabled) => isProcessing
    /\ isProcessing => drains # << >>

\* the switch was turned on over a pending list of two texts: the drain took
\* the first and the second is still pending
C33_Witness ==
    /\ queue # << >>
    /\ dualSubEnabled
    /\ isProcessing
    /\ ev.op = "switch-on"

\* C34: when dualSubEnabled stays true from some point on (the cues are
\* finitely many and every translation call returns), the pending list ends
\* empty with isProcessing false; and every batch a loop iteration cut holds at
\* least one text, taken from the front of the pending list.
C34_DrainProgress ==
    /\ <>[]dualSubEnabled => <>[](queue = << >> /\ ~isProcessing)
    /\ [](\A d \in 1..Len(drains) :
             /\ Len(drains[d].items) >= 1
             /\ drains[d].items = SubSeq(drains[d].before, 1, Len(drains[d].items)))

\* all texts arrived, the switch is on and the last batch has returned
C34_Witness ==
    /\ Len(arrived) = MaxArrivals
    /\ dualSubEnabled
    /\ queue = << >>
    /\ ~isProcessing
    /\ Len(submitted) = MaxArrivals

----------------------------------------------------------------------------
(* Properties of the persisted units (SpecLanguage, SpecMovies) *)

\* the step is the return of a translation call whose records were handed to
\* saveSubtitlesBatch
SavesBatch == ev'.op = "settled" /\ Len(saveTransactions') = Len(saveTransactions) + 1

\* C35: the targetLanguage stored on every unit handed to the store equals the
\* target_lang of the message that asked for its translation, also when the
\* target language finishes loading while the batch is in flight.
C35_TargetLanguageConsistency ==
    [][SavesBatch =>
          \A i \in 1..Len(saveTransactions'[Len(saveTransactions')]) :
              saveTransactions'[Len(saveTransactions')][i].targetLanguage
                  = drains[1].targetLanguage]_vars

\* units handed to saveSubtitlesBatch or already in the store
PersistedUnits ==
    { subtitleStore[k] : k \in DOMAIN subtitleStore }
    \cup UNION { { saveTransactions[t][i] : i \in 1..Len(saveTransactions[t]) } :
                    t \in 1..Len(saveTransactions) }

\* the movies that were open when a text with this key was queued
MoviesAtEnqueue(translationKey) ==
    { arrived[i].movieName :
        i \in { j \in 1..Len(arrived) : toTranslationKey(arrived[j].text) = translationKey } }

\* C36: every persisted unit carries the movie that was open when its text was
\* queued, also when another video is opened while the text is pending or its
\* batch is in flight. (A text queued before any title was known has no work
\* item yet and is left out.)
C36_WorkItemAttribution ==
    \A r \in PersistedUnits :
        \/ r.movieName \in MoviesAtEnqueue(r.originalText)
        \/ NoMovie \in MoviesAtEnqueue(r.originalText)

----------------------------------------------------------------------------
(* Properties of the sweep beside the page (SpecSweep) *)

\* the step is a deletion by the sweep, of the units or of the metadata record
SweepDeletes ==
    \/ sweep.pc = "clear" /\ sweep'.pc = "delete"
    \/ sweep.pc = "delete" /\ sweep'.pc # "delete"

\* C37: the sweep deletes neither the units nor the metadata record of a movie
\* whose stored lastAccessedDays is at or after the cutoff when the deletion
\* happens, however the sweep and loadMovieCacheAndUpdateMetadata interleave.
C37_SweepSparesAccessed ==
    [][SweepDeletes =>
          LET movieName == Head(sweep.old).movieName
          IN  ~ /\ movieName \in DOMAIN movieMetadata
                /\ movieMetadata[movieName].lastAccessedDays >= NowDays - DefaultMaxAgeDays]_vars

\* no transaction is open and no call on the store is pending
StoreQuiet ==
    /\ saveTransactions = << >>
    /\ movieLoad.pc = "idle"
    /\ sweep.pc \in { "idle", "done" }

\* C38: with no store operation in flight, every movie that has a unit in the
\* store has a metadata record.
C38_NoOrphanUnits ==
    StoreQuiet => \A k \in DOMAIN subtitleStore : k[1] \in DOMAIN movieMetadata

----------------------------------------------------------------------------
(* Properties of the credentials (SpecWorker) *)

\* the step issues a request: translateTexts is called
IssuesRequest == bg.pc # "fetch" /\ bg'.pc = "fetch"

\* C39: every request translateTexts issues carries the key of the token that
\* is marked selected in the storage at that moment, and goes to the endpoint
\* of its type, when there is such a token; no request carries the empty
\* initial key because the startup load has not completed.
C39_CredentialFreshness ==
    [][IssuesRequest /\ FindSelected(storage, 1) # 0 =>
          LET selected == storage[FindSelected(storage, 1)]
          IN  bg'.request = Request([deeplTokenKey |-> selected.key,
                                     isDeepLPro |-> selected.type = "pro"])]_vars

----------------------------------------------------------------------------
(* Properties of the token cards (SpecCards) *)

\* the tokens of the list that are the selected one
SelectedTokens == { i \in 1..Len(tokenInfos) : tokenInfos[i].selected }

\* C40: after any adds, selections, usage checks and removals, no token of the
\* list is both deactivated and selected, and at most one token is selected.
C40_DeactivatedNeverSelected ==
    /\ \A i \in SelectedTokens : ~tokenInfos[i].isDeactivated
    /\ Cardinality(SelectedTokens) <= 1

====
